---- MODULE Spec2Model ----
(***************************************************************************)
(* Model of the uptime monitor backend: the Domain and DowntimeLog tables, *)
(* the /events/down and /events/up handlers, domain provisioning, device   *)
(* registration, the retention job, the notification fan-out, the rate     *)
(* limiter and the request middleware, the certificate checks and the      *)
(* analytics queries.                                                      *)
(*                                                                         *)
(* Each subsystem has its own specification over the shared variables:     *)
(* Spec (events, provisioning, retention, analytics), SpecFanout,          *)
(* SpecLimiter, SpecMiddleware, SpecSsl, SpecAnalytics (the bodies the     *)
(* analytics queries return), SpecText (the payload of the "up"            *)
(* notification), SpecRace (the event handlers running concurrently),      *)
(* SpecAdmission (check_rate_limit statement by statement on the event     *)
(* loop), SpecAuth (the API key check), SpecRetention (the retention job   *)
(* with two summary rows), SpecProvisioned (events of provisioned domains) *)
(* and SpecRegister (device registration call by call).                    *)
(*                                                                         *)
(* Timestamps are counted in ticks; one second is TicksPerSec ticks, so    *)
(* that the whole-second truncation of duration_seconds is visible.        *)
(* A nullable column holds None (<<>>) or Some(v) (<<v>>).                 *)
(***************************************************************************)
EXTENDS Integers, FiniteSets, Sequences, Bags, TLC

\* ---- bounds of the model ------------------------------------------------
MaxDomainId == 1
MaxTick == 2
TicksPerSec == 2
MaxLogId == 2
MaxTokens == 1
MaxStatId == 2
MaxIncidents == 2

\* ---- program constants --------------------------------------------------
RetentionDays == 90
SecondsPerDay == 86400

DomainIds == 1..MaxDomainId
Times == 0..MaxTick
Tokens == 1..MaxTokens

None == <<>>
Some(v) == <<v>>
IsSet(x) == x # None
Val(x) == x[1]

VARIABLES
    domains,    \* table domains: id -> row (status and certificate columns)
    logs,       \* table downtime_logs: set of rows
    stats,      \* table daily_stats: set of rows
    devices,    \* table device_tokens: set of registered tokens
    last,       \* what the last handler did and returned
    fan,        \* one call of send_to_all_devices, receiver by receiver
    rate_limit_storage,  \* key -> bag of admitted timestamps
    clock,      \* the last value time.time() returned
    req,        \* what the middleware did with the last /events request
    sweep,      \* the run_ssl_check job: its loop position and outcome
    cert,       \* what the last certificate check did
    report,     \* the body the last analytics query returned
    message,    \* the data payload of the last "up" notification
    threads,    \* the /events handlers in progress, one per worker thread
    coroutines, \* the rate_limit_middleware calls in progress on the event loop
    granted,    \* key -> bag of the timestamps check_rate_limit admitted so far
    headers,    \* the X-API-Key and Authorization headers of the last request
    device_tokens,  \* table device_tokens, row by row (id, token, platform)
    registrations   \* the POST /devices/register calls in progress

db == <<domains, logs, stats, devices>>
fan_vars == <<fan>>
limiter_vars == <<rate_limit_storage, clock, req>>
ssl_vars == <<sweep, cert>>
aux_vars == <<coroutines, granted, headers, device_tokens, registrations>>
out_vars == <<report, message, threads, aux_vars>>
vars == <<domains, logs, stats, devices, last, fan, rate_limit_storage,
          clock, req, sweep, cert, report, message, threads, coroutines,
          granted, headers, device_tokens, registrations>>

\* ---- helpers --------------------------------------------------------------
SetMax(S) == CHOOSE m \in S : \A x \in S : x <= m

\* primary key given to a new row: SQLite hands out max(rowid) + 1
NextDomainId ==
    LET used == {d \in DOMAIN domains : domains[d].present}
    IN IF used = {} THEN 1 ELSE SetMax(used) + 1

NextLogId ==
    IF logs = {} THEN 1 ELSE SetMax({l.id : l \in logs}) + 1

NextStatId ==
    IF stats = {} THEN 1 ELSE SetMax({s.id : s \in stats}) + 1

\* an id without a row; the fields show the column defaults
NoDomain ==
    [present |-> FALSE, is_active |-> TRUE, ssl_enabled |-> TRUE,
     ssl_days_until_expiry |-> None, ssl_last_checked |-> None]

\* db.query(Domain).filter(Domain.id == domain_id).first() is not None
DomainExists(d) == d \in DOMAIN domains /\ domains[d].present

\* variant: an identity without a Domain row is taken to be down already
WasUp_UnknownIsDown(d) == IF DomainExists(d) THEN domains[d].is_active ELSE FALSE

\* was_up = domain.is_active if domain else True
WasUp(d) == IF DomainExists(d) THEN domains[d].is_active ELSE TRUE

\* was_down = not domain.is_active if domain else False
WasDown(d) == IF DomainExists(d) THEN ~domains[d].is_active ELSE FALSE

\* the rows the "active downtime log" query can return
OpenLogs(d) == {l \in logs : l.domain_id = d /\ ~l.resolved}

\* int(x / k) of Python: truncation toward zero
TruncDiv(x, k) == IF x >= 0 THEN x \div k ELSE -((-x) \div k)

\* int((end_time - start_time).total_seconds())
DurationSeconds(start, end) == TruncDiv(end - start, TicksPerSec)

\* DowntimeLog(domain_id=..., start_time=..., resolved=False)
NewLog(d, t) ==
    [id |-> NextLogId, domain_id |-> d, start_time |-> t, end_time |-> None,
     duration_seconds |-> None, resolved |-> FALSE]

\* log.end_time, log.duration_seconds, log.resolved of the UP handler
CloseLog(l, t) ==
    [l EXCEPT !.end_time = Some(t),
              !.duration_seconds = Some(DurationSeconds(l.start_time, t)),
              !.resolved = TRUE]

\* the row of a table with a given primary key
LogById(S, i) == CHOOSE l \in S : l.id = i

\* if was_down and log.duration_seconds > 0
ShouldNotifyUp(was_down, duration) == was_down /\ duration > 0

NoNotifications == [total |-> 0, success |-> 0, failed |-> 0]

\* send_fcm delivers only when the Firebase SDK was initialised at import;
\* otherwise it returns an error for every receiver
Delivered(firebase_initialized, reachable) ==
    IF firebase_initialized THEN reachable ELSE {}

\* variant: the failed deliveries are left out of the returned counts
SendToAllDevices_DropFailed(devs, ok) ==
    IF devs = {} THEN NoNotifications
    ELSE [total |-> Cardinality(devs),
          success |-> Cardinality(devs \cap ok),
          failed |-> 0]

\* send_to_all_devices: ok is the set of receivers whose delivery succeeded
SendToAllDevices(devs, ok) ==
    IF devs = {} THEN NoNotifications
    ELSE [total |-> Cardinality(devs),
          success |-> Cardinality(devs \cap ok),
          failed |-> Cardinality(devs \ ok)]

\* what a handler read, did and reported: its input (domain_id, detected_at),
\* whether it found the Domain row and the status it read before updating
\* (was_up; the UP handler's was_down is found /\ ~was_up), the outcome, the
\* status_changed flag, the kind of fan-out it invoked ("none" when
\* send_to_all_devices was not called), the counts the fan-out returned and
\* the id of the log row it wrote (0 when it wrote none)
Result(op, d, t, found, was_up, outcome, changed, ftype, notif, log) ==
    [op |-> op, domain_id |-> d, detected_at |-> t, found |-> found,
     was_up |-> was_up, outcome |-> outcome, status_changed |-> changed,
     fanout |-> ftype, notifications |-> notif, log |-> log]

\* the result of an operation that is no health event
Other(op, d, outcome) ==
    Result(op, d, 0, FALSE, TRUE, outcome, FALSE, "none", NoNotifications, 0)

\* ---- POST /events/down -----------------------------------------------------
\* variant: the record is added but the status flip is left out
DownDomains_NoFlip(d) == domains

\* rows written by the UP -> DOWN branch: the status flip and the new log
DownDomains(d) ==
    IF DomainExists(d) THEN [domains EXCEPT ![d].is_active = FALSE] ELSE domains

DownLogs(d, t) == logs \cup {NewLog(d, t)}

DomainDown(d, t) ==
    LET found == DomainExists(d)
        was_up == WasUp(d)
        Reply(outcome, changed, ftype, notif, log) ==
            Result("down", d, t, found, was_up, outcome, changed, ftype, notif, log)
    IN IF was_up
       THEN /\ NextLogId <= MaxLogId
            /\ \E committed \in BOOLEAN :
                 IF ~committed
                 THEN \* db.commit() raised: nothing is written
                      /\ UNCHANGED db
                      /\ last' = Reply("persistence_error", FALSE, "none",
                                       NoNotifications, 0)
                 ELSE /\ logs' = DownLogs(d, t)
                      /\ domains' = DownDomains(d)
                      /\ UNCHANGED <<stats, devices>>
                      /\ IF ~found
                         THEN \* domain.custom_sound_down on None: AttributeError
                              last' = Reply("exception", FALSE, "none",
                                            NoNotifications, NextLogId)
                         ELSE \E firebase_initialized \in BOOLEAN,
                                 reachable \in SUBSET devices :
                              last' = Reply("ok", TRUE, "down",
                                            SendToAllDevices(devices,
                                                Delivered(firebase_initialized,
                                                          reachable)),
                                            NextLogId)
       ELSE /\ UNCHANGED db
            /\ last' = Reply("ok", FALSE, "none", NoNotifications, 0)

\* ---- POST /events/up -------------------------------------------------------
\* variant: the status is never set back to up
UpDomains_NoFlip(d) == domains

\* domain.is_active = True (if domain)
UpDomains(d) ==
    IF DomainExists(d) THEN [domains EXCEPT ![d].is_active = TRUE] ELSE domains

UpLogs(l, t) == (logs \ {l}) \cup {CloseLog(l, t)}

DomainUp(d, t) ==
    LET found == DomainExists(d)
        was_down == WasDown(d)
        Reply(outcome, changed, ftype, notif, log) ==
            Result("up", d, t, found, ~was_down, outcome, changed, ftype, notif, log)
    IN IF OpenLogs(d) = {}
       THEN \* raise HTTPException(404, "No active downtime log")
            IF found /\ ~domains[d].is_active
            THEN \E committed \in BOOLEAN :
                 IF ~committed
                 THEN /\ UNCHANGED db
                      /\ last' = Reply("persistence_error", FALSE, "none",
                                       NoNotifications, 0)
                 ELSE /\ domains' = UpDomains(d)
                      /\ UNCHANGED <<logs, stats, devices>>
                      /\ last' = Reply("no_active_incident", FALSE, "none",
                                       NoNotifications, 0)
            ELSE /\ UNCHANGED db
                 /\ last' = Reply("no_active_incident", FALSE, "none",
                                  NoNotifications, 0)
       ELSE \* .first() without ORDER BY: any of the open rows
            \E l \in OpenLogs(d), committed \in BOOLEAN :
                 IF ~committed
                 THEN /\ UNCHANGED db
                      /\ last' = Reply("persistence_error", FALSE, "none",
                                       NoNotifications, 0)
                 ELSE /\ logs' = UpLogs(l, t)
                      /\ domains' = UpDomains(d)
                      /\ UNCHANGED <<stats, devices>>
                      /\ IF ShouldNotifyUp(was_down, DurationSeconds(l.start_time, t))
                         THEN \E firebase_initialized \in BOOLEAN,
                                 reachable \in SUBSET devices :
                              last' = Reply("ok", was_down, "up",
                                            SendToAllDevices(devices,
                                                Delivered(firebase_initialized,
                                                          reachable)),
                                            l.id)
                         ELSE last' = Reply("ok", was_down, "none",
                                            NoNotifications, l.id)

\* ---- /domains ---------------------------------------------------------------
\* what get_ssl_certificate returns: a valid certificate with its days until
\* expiry, or a failure; checked_at is the time of the probe
ValidCert(days, checked_at) ==
    [valid |-> TRUE, days_until_expiry |-> days, checked_at |-> checked_at]

ProbeFailed(checked_at) ==
    [valid |-> FALSE, days_until_expiry |-> 0, checked_at |-> checked_at]

\* the certificate columns after a valid probe (expiry date, issuer and
\* subject are written by the same statements as the days and are left out)
Snapshot(row, ssl_info) ==
    [row EXCEPT !.ssl_days_until_expiry = Some(ssl_info.days_until_expiry),
                !.ssl_last_checked = Some(ssl_info.checked_at)]

\* Domain(**payload.dict()): is_active takes its column default
NewDomain(ssl_enabled) ==
    [present |-> TRUE, is_active |-> TRUE, ssl_enabled |-> ssl_enabled,
     ssl_days_until_expiry |-> None, ssl_last_checked |-> None]

\* create_domain: the insert is committed first; with ssl_enabled the
\* certificate is probed and a valid result is stored by a second commit
CreateDomain(ssl_enabled, ssl_info) ==
    /\ NextDomainId \in DOMAIN domains
    /\ \E committed \in BOOLEAN :
         IF ~committed
         THEN \* e.g. the unique constraint on name
              /\ UNCHANGED db
              /\ last' = Other("create", NextDomainId, "persistence_error")
         ELSE IF ssl_enabled /\ ssl_info.valid
         THEN \E stored \in BOOLEAN :
              /\ domains' = [domains EXCEPT ![NextDomainId] =
                                 IF stored
                                 THEN Snapshot(NewDomain(ssl_enabled), ssl_info)
                                 ELSE NewDomain(ssl_enabled)]
              /\ UNCHANGED <<logs, stats, devices>>
              /\ last' = Other("create", NextDomainId,
                               IF stored THEN "ok" ELSE "persistence_error")
         ELSE /\ domains' = [domains EXCEPT ![NextDomainId] =
                                 NewDomain(ssl_enabled)]
              /\ UNCHANGED <<logs, stats, devices>>
              /\ last' = Other("create", NextDomainId, "ok")

DeleteDomain(d) ==
    IF ~DomainExists(d)
    THEN /\ UNCHANGED db
         /\ last' = Other("delete", d, "not_found")
    ELSE \* the rows of downtime_logs that reference the domain stay
         /\ domains' = [domains EXCEPT ![d] = NoDomain]
         /\ UNCHANGED <<logs, stats, devices>>
         /\ last' = Other("delete", d, "ok")

\* ---- POST /devices/register ---------------------------------------------------
\* tok = 0 stands for a request that carries no token
RegisterDevice(tok, platform_ok) ==
    IF tok = 0 \/ ~platform_ok
    THEN \* HTTPException(400)
         /\ UNCHANGED db
         /\ last' = Other("register", tok, "bad_request")
    ELSE IF tok \in devices
    THEN /\ UNCHANGED db
         /\ last' = Other("register", tok, "already_registered")
    ELSE \E committed \in BOOLEAN :
         \* an IntegrityError is rolled back and "Registered" is returned anyway
         /\ devices' = IF committed THEN devices \cup {tok} ELSE devices
         /\ UNCHANGED <<domains, logs, stats>>
         /\ last' = Other("register", tok, "ok")

\* ---- retention job ------------------------------------------------------------
RetentionTicks == RetentionDays * SecondsPerDay * TicksPerSec

\* the values datetime.utcnow() takes relative to the stored start times
NowTimes == {RetentionTicks + k : k \in 0..(MaxTick + 1)}

\* log.start_time.date()
DateOf(t) == t \div (SecondsPerDay * TicksPerSec)

\* DowntimeLog.start_time < limit_date
OldLogs(now) == {l \in logs : l.start_time < now - RetentionTicks}

\* log.duration_seconds or 0
DurationOrZero(l) ==
    IF IsSet(l.duration_seconds) THEN Val(l.duration_seconds) ELSE 0

RECURSIVE SumDurations(_)
SumDurations(S) ==
    IF S = {} THEN 0
    ELSE LET l == CHOOSE x \in S : TRUE
         IN DurationOrZero(l) + SumDurations(S \ {l})

\* the committed rows the filter_by(domain_id, date) query sees; rows added
\* in this run are pending and, with autoflush off, not seen
StatsFor(d, day) == {s \in stats : s.domain_id = d /\ s.date = day}

FirstStat(d, day) ==
    CHOOSE s \in StatsFor(d, day) : \A x \in StatsFor(d, day) : s.id <= x.id

\* old logs folded into the row found for their (domain, date)
FoldedStats(old) ==
    {IF s = FirstStat(s.domain_id, s.date)
     THEN LET mine == {l \in old : l.domain_id = s.domain_id
                                    /\ DateOf(l.start_time) = s.date}
          IN [s EXCEPT !.total_incidents = @ + Cardinality(mine),
                       !.total_downtime = @ + SumDurations(mine)]
     ELSE s : s \in stats}

\* old logs for which no row was found: one new DailyStats row each
Unmatched(old) ==
    {l \in old : StatsFor(l.domain_id, DateOf(l.start_time)) = {}}

AddedStats(old) ==
    {[id |-> NextStatId + Cardinality({x \in Unmatched(old) : x.id < l.id}),
      domain_id |-> l.domain_id, date |-> DateOf(l.start_time),
      total_incidents |-> 1, total_downtime |-> DurationOrZero(l)]
     : l \in Unmatched(old)}

CleanupOldLogs(now) ==
    LET old == OldLogs(now)
        new_stats == FoldedStats(old) \cup AddedStats(old)
    IN /\ \A s \in new_stats : s.id <= MaxStatId /\ s.total_incidents <= MaxIncidents
       /\ stats' = new_stats
       /\ logs' = logs \ old
       /\ UNCHANGED <<domains, devices>>
       /\ last' = Other("cleanup", 0, "ok")

\* ---- GET /analytics ---------------------------------------------------------
\* the day counts a client asks for
WindowDays == {1, 7, 30}

\* get_today_stats: queries only; the session is closed without a commit
GetTodayStats ==
    /\ UNCHANGED db
    /\ last' = Other("today_stats", 0, "ok")

\* variant: the provisional end of an open record is written back
GetDomainAnalytics_Provisional(d, days) ==
    /\ logs' = {IF l.domain_id = d /\ ~l.resolved
                THEN [l EXCEPT !.end_time = Some(MaxTick)] ELSE l : l \in logs}
    /\ UNCHANGED <<domains, stats, devices>>
    /\ last' = Other("domain_analytics", d, "ok")

\* get_domain_analytics: queries only, for any domain_id and days; the
\* provisional end of an open record is a local value
GetDomainAnalytics(d, days) ==
    /\ UNCHANGED db
    /\ last' = Other("domain_analytics", d, "ok")

\* ---- GET /analytics: the bodies returned -----------------------------------------
\* timedelta(hours=1) and timedelta(days=1) in ticks
HourTicks == 3600 * TicksPerSec
DayTicks == SecondsPerDay * TicksPerSec

\* total_period_seconds = 7 * 24 * 60 * 60 of the MTBF branches, whatever days is
MtbfPeriod == 7 * SecondsPerDay

\* a date compared with a DateTime column: midnight of that day
Midnight(day) == day * DayTicks

\* the rows of the query of get_domain_analytics: start_date - 1 day up to
\* tomorrow, both ends included
Fetched(d, days, now) ==
    LET today == DateOf(now)
        start_date == today - (days - 1)
    IN {l \in logs : /\ l.domain_id = d
                     /\ l.start_time >= Midnight(start_date - 1)
                     /\ l.start_time <= Midnight(today + 1)}

\* order_by(start_time.asc()): any order of the rows that is ascending in
\* start_time (rows with equal start_time come in either order)
Orders(S) ==
    {o \in [1..Cardinality(S) -> S] :
        /\ \A i, j \in 1..Cardinality(S) : i # j => o[i] # o[j]
        /\ \A i, j \in 1..Cardinality(S) :
              i < j => o[i].start_time <= o[j].start_time}

\* l.resolved and l.duration_seconds: None and 0 are both falsy
HasDuration(l) ==
    l.resolved /\ IsSet(l.duration_seconds) /\ Val(l.duration_seconds) # 0

\* resolved_logs, in the order of the query
ResolvedLogs(order) == SelectSeq(order, HasDuration)

\* int(sum(l.duration_seconds for l in resolved_logs) / len(resolved_logs))
Mttr(S) ==
    LET resolved_logs == {l \in S : HasDuration(l)}
    IN IF resolved_logs = {} THEN 0
       ELSE TruncDiv(SumDurations(resolved_logs), Cardinality(resolved_logs))

\* (current_log.start_time - prev_log.end_time) for consecutive resolved rows
Gaps(resolved_logs) ==
    [i \in 1..(Len(resolved_logs) - 1) |->
        resolved_logs[i + 1].start_time - Val(resolved_logs[i].end_time)]

IsUptime(delta) == delta > 0

RECURSIVE SumSeq(_)
SumSeq(q) == IF q = <<>> THEN 0 ELSE Head(q) + SumSeq(Tail(q))

\* mtbf: the mean positive gap between resolved rows; without such a gap
\* the 7-day period less the downtime, over the incidents less one; with
\* exactly one fetched row (resolved or not) the period less the downtime
Mtbf(resolved_logs, total_incidents, total_downtime) ==
    IF Len(resolved_logs) >= 2
    THEN LET time_between_failures == SelectSeq(Gaps(resolved_logs), IsUptime)
         IN IF time_between_failures # <<>>
            THEN TruncDiv(SumSeq(time_between_failures),
                          Len(time_between_failures) * TicksPerSec)
            ELSE IF total_incidents > 1
            THEN TruncDiv(MtbfPeriod - total_downtime, total_incidents - 1)
            ELSE 0
    ELSE IF total_incidents = 1
    THEN MtbfPeriod - total_downtime
    ELSE 0

\* max([l.duration_seconds or 0 for l in logs], default=0)
WorstDuration(S) ==
    IF S = {} THEN 0 ELSE SetMax({DurationOrZero(l) : l \in S})

\* hour_start of bucket i (0..23): the hour of now less 23 - i hours
HourStart(now, i) == (now \div HourTicks) * HourTicks - (23 - i) * HourTicks

\* log.end_time if log.end_time else datetime.now()
LogEnd(l, now) == IF IsSet(l.end_time) THEN Val(l.end_time) ELSE now

\* log_start < hour_end and log_end > hour_start
OverlapsHour(l, now, hour_start) ==
    l.start_time < hour_start + HourTicks /\ LogEnd(l, now) > hour_start

Least(a, b) == IF a <= b THEN a ELSE b
Greatest(a, b) == IF a >= b THEN a ELSE b

\* (overlap_end - overlap_start), in ticks
OverlapTicks(l, now, hour_start) ==
    Least(LogEnd(l, now), hour_start + HourTicks)
        - Greatest(l.start_time, hour_start)

RECURSIVE SumOverlaps(_, _, _)
SumOverlaps(S, now, hour_start) ==
    IF S = {} THEN 0
    ELSE LET l == CHOOSE x \in S : TRUE
         IN OverlapTicks(l, now, hour_start)
                + SumOverlaps(S \ {l}, now, hour_start)

\* one entry of daily_stats: the start of the bucket, the number of rows
\* counted in it and its downtime in whole seconds (the minute figures
\* derived from the same sums are left out)
Bucket(date, incidents, total_downtime) ==
    [date |-> date, incidents |-> incidents, total_downtime |-> total_downtime]

\* days == 1: 24 hourly buckets, total_downtime = int(hour_downtime)
HourlyStats(S, now) ==
    [k \in 1..24 |->
        LET hour_start == HourStart(now, k - 1)
            hour_logs == {l \in S : OverlapsHour(l, now, hour_start)}
        IN Bucket(hour_start, Cardinality(hour_logs),
                  TruncDiv(SumOverlaps(hour_logs, now, hour_start), TicksPerSec))]

\* otherwise: one bucket per day from start_date, by the date of start_time
DailyStats(S, days, now) ==
    [k \in 1..days |->
        LET day == DateOf(now) - (days - 1) + (k - 1)
            day_logs == {l \in S : DateOf(l.start_time) = day}
        IN Bucket(Midnight(day), Cardinality(day_logs), SumDurations(day_logs))]

\* the body of an analytics response (uptime_percentage, a rounded float
\* derived from total_downtime, is left out)
Report(op, d, days, now, S, mtbf, worst_domain, order, daily_stats) ==
    [op |-> op, domain_id |-> d, days |-> days, now |-> now,
     total_incidents |-> Cardinality(S), total_downtime |-> SumDurations(S),
     mttr |-> Mttr(S), mtbf |-> mtbf, worst_duration |-> WorstDuration(S),
     worst_domain |-> worst_domain, logs |-> order, daily_stats |-> daily_stats]

NoReport == Report("none", 0, 0, 0, {}, 0, None, <<>>, <<>>)

\* the rows of get_today_stats: start_time on today's date
TodayLogs(now) == {l \in logs : DateOf(l.start_time) = DateOf(now)}

\* max(logs, key=...) over an unordered query: any row of greatest duration;
\* its domain's row if there is one
WorstDomains(S) ==
    IF S = {} THEN {None}
    ELSE {IF DomainExists(l.domain_id) THEN Some(l.domain_id) ELSE None :
            l \in {x \in S : DurationOrZero(x) = WorstDuration(S)}}

\* what get_today_stats returns at time now
TodayStats(now, worst_domain) ==
    Report("today_stats", 0, 1, now, TodayLogs(now), 0, worst_domain, <<>>, <<>>)

\* what get_domain_analytics returns at time now, the query having
\* returned its rows in the given order
DomainAnalytics(d, days, now, order) ==
    LET S == Fetched(d, days, now)
    IN Report("domain_analytics", d, days, now, S,
              Mtbf(ResolvedLogs(order), Cardinality(S), SumDurations(S)),
              None, order,
              IF days = 1 THEN HourlyStats(S, now) ELSE DailyStats(S, days, now))

\* ---- send_to_all_devices, receiver by receiver -----------------------------------
MaxReceivers == 3

\* what one delivery attempt gives: send_fcm returned a message id, send_fcm
\* returned an error, or an exception was raised inside the try block
Attempts == {"sent", "error", "raised"}

\* send_fcm: without the Firebase SDK every call returns an error
SendFcm(firebase_initialized, attempt) ==
    IF ~firebase_initialized /\ attempt = "sent" THEN "error" ELSE attempt

NoResults == [success |-> 0, failed |-> 0, total |-> 0, details |-> <<>>]

FanIdle(firebase_initialized) ==
    [firebase_initialized |-> firebase_initialized, pc |-> "idle",
     devices |-> <<>>, i |-> 0, results |-> NoResults,
     tried |-> <<>>, got |-> <<>>]

\* variant: an error result is counted as a success
Record_ErrorAsSuccess(results, token, result) ==
    [results EXCEPT !.success = @ + 1,
                    !.details = Append(@, [token |-> token, status |-> "success"])]

\* the body of the loop: one count and one detail entry for the receiver
Record(results, token, result) ==
    IF result = "sent"
    THEN [results EXCEPT !.success = @ + 1,
                         !.details = Append(@, [token |-> token,
                                                status |-> "success"])]
    ELSE [results EXCEPT !.failed = @ + 1,
                         !.details = Append(@, [token |-> token,
                                                status |-> "failed"])]

\* variant: an exception ends the loop
NextReceiver_AbortOnRaise(i, n, result) ==
    IF result = "raised" THEN n + 1 ELSE i + 1

\* for device in devices: the loop goes on after every outcome
NextReceiver(i, n, result) == i + 1

\* the call: an empty list returns at once, without details
SendStart(n) ==
    /\ fan.pc \in {"idle", "returned"}
    /\ fan' = [fan EXCEPT
                 !.pc = IF n = 0 THEN "returned" ELSE "loop",
                 !.devices = [k \in 1..n |-> k],
                 !.i = 1,
                 !.results = [NoResults EXCEPT !.total = n],
                 !.tried = [k \in 1..n |-> 0],
                 !.got = <<>>]
    /\ UNCHANGED <<db, last, limiter_vars, ssl_vars, out_vars>>

\* one pass of the loop for the receiver at position i
SendOne(attempt) ==
    /\ fan.pc = "loop"
    /\ fan.i <= Len(fan.devices)
    /\ LET result == SendFcm(fan.firebase_initialized, attempt)
       IN fan' = [fan EXCEPT
                    !.tried[fan.i] = @ + 1,
                    !.got = Append(@, result),
                    !.results = Record(@, fan.devices[fan.i], result),
                    !.i = NextReceiver(fan.i, Len(fan.devices), result)]
    /\ UNCHANGED <<db, last, limiter_vars, ssl_vars, out_vars>>

\* return results
SendReturn ==
    /\ fan.pc = "loop"
    /\ fan.i > Len(fan.devices)
    /\ fan' = [fan EXCEPT !.pc = "returned"]
    /\ UNCHANGED <<db, last, limiter_vars, ssl_vars, out_vars>>

\* ---- rate limiter --------------------------------------------------------------
RATE_LIMIT_REQUESTS == 400
RATE_LIMIT_WINDOW == 60

MaxWindows == 1
MaxTracked == 1

\* the values time.time() takes, in seconds: the start, the last second
\* before each multiple of the window length, and the multiples themselves
ClockValues ==
    {0} \cup {k * RATE_LIMIT_WINDOW - 1 : k \in 1..MaxWindows}
        \cup {k * RATE_LIMIT_WINDOW : k \in 1..(MaxWindows + 1)}

\* the JSON value found under "domain_id": a number, a string holding the
\* decimal digits of a number, or nothing
JInt(n) == [type |-> "int", n |-> n]
JStr(n) == [type |-> "str", n |-> n]
JAbsent == [type |-> "absent", n |-> 0]

JsonIds == {JInt(n) : n \in 0..MaxDomainId} \cup {JStr(n) : n \in 0..MaxDomainId}
               \cup {JAbsent}

\* if domain_id: on the parsed value
Truthy(v) == (v.type = "int" /\ v.n # 0) \/ v.type = "str"

\* the keys rate_limit_storage can get; a number and a string are different
\* keys of the dictionary
Keys == {v \in JsonIds : Truthy(v)}

\* [ts for ts in rate_limit_storage[domain_id] if ts > window_start]
Surviving(key, now) ==
    LET b == rate_limit_storage[key]
    IN [ts \in {x \in DOMAIN b : x > now - RATE_LIMIT_WINDOW} |-> b[ts]]

\* variant: one request more than the capacity gets through
Exceeded_OffByOne(current_requests) == current_requests > RATE_LIMIT_REQUESTS

\* if current_requests >= RATE_LIMIT_REQUESTS
Exceeded(current_requests) == current_requests >= RATE_LIMIT_REQUESTS

\* check_rate_limit: (is_allowed, requests_remaining) and the list it leaves
IsAllowed(key, now) == ~Exceeded(BagCardinality(Surviving(key, now)))

Remaining(key, now) ==
    IF IsAllowed(key, now)
    THEN RATE_LIMIT_REQUESTS - BagCardinality(Surviving(key, now)) - 1
    ELSE 0

\* variant: a rejected attempt is recorded as well
StorageAfter_RecordsRejected(key, now) ==
    [rate_limit_storage EXCEPT ![key] = Surviving(key, now) (+) SetToBag({now})]

StorageAfter(key, now) ==
    [rate_limit_storage EXCEPT ![key] =
        IF IsAllowed(key, now)
        THEN Surviving(key, now) (+) SetToBag({now})
        ELSE Surviving(key, now)]

\* the last timestamp of a list (0 for an empty one)
Newest(b) == IF DOMAIN b = {} THEN 0 ELSE SetMax(DOMAIN b)

\* what became of a request: whether check_rate_limit was called, with which
\* key and at what time, how many timestamps the key held before the call
\* (before), the last of them (newest), how many were left after the
\* pruning (count), what the call returned, and the
\* status the client got ("handled" when the request reached the handler,
\* with the domain id the handler was given)
Request(op, status, checked, key, now, domain_id) ==
    [op |-> op, status |-> status, checked |-> checked, key |-> key, now |-> now,
     before |-> IF checked THEN BagCardinality(rate_limit_storage[key]) ELSE 0,
     newest |-> IF checked THEN Newest(rate_limit_storage[key]) ELSE 0,
     count |-> IF checked THEN BagCardinality(Surviving(key, now)) ELSE 0,
     allowed |-> IF checked THEN IsAllowed(key, now) ELSE TRUE,
     remaining |-> IF checked THEN Remaining(key, now) ELSE 0,
     retry_after |-> IF status = "rate_limited" THEN RATE_LIMIT_WINDOW ELSE 0,
     domain_id |-> domain_id]

NoRequest == Request("init", "none", FALSE, JAbsent, 0, 0)

\* one call of check_rate_limit(key) at time now
CheckRateLimit(key, now) ==
    /\ now >= clock
    /\ clock' = now
    /\ rate_limit_storage' = StorageAfter(key, now)
    /\ req' = Request("check", "none", TRUE, key, now, 0)
    /\ UNCHANGED <<db, last, fan_vars, ssl_vars, out_vars>>

\* ---- POST /events/down and /events/up behind the middleware --------------------------
\* the request body: json.loads succeeded and gave an object (parsed) or
\* raised, and the value the object holds under "domain_id"
Body(parsed, domain_id) == [parsed |-> parsed, domain_id |-> domain_id]

Bodies == {Body(TRUE, v) : v \in JsonIds} \cup {Body(FALSE, JAbsent)}

\* DownEvent / UpEvent: domain_id: int takes a number and, by coercion, a
\* string of digits; a body without it is refused
Accepts(body) == body.parsed /\ body.domain_id.type \in {"int", "str"}

\* the int the handler gets as payload.domain_id
Coerced(v) == v.n

\* rate_limit_middleware calls check_rate_limit only for a body that parses
\* and holds a truthy domain_id; a parse error is logged and the request
\* goes on
IsChecked(body) == body.parsed /\ Truthy(body.domain_id)

\* the handler of the request
Handle(op, d, t) ==
    IF op = "down" THEN DomainDown(d, t) ELSE DomainUp(d, t)

\* one POST under /events through api_key_middleware, rate_limit_middleware
\* and the router; the middleware added last runs first
EventRequest(op, key_ok, body, now, t) ==
    LET v == body.domain_id
        checked == key_ok /\ IsChecked(body)
    IN /\ now >= clock
       /\ checked =>
             LET held == BagCardinality(rate_limit_storage[v])
             IN held < MaxTracked \/ held >= RATE_LIMIT_REQUESTS
       /\ clock' = IF checked THEN now ELSE clock
       /\ rate_limit_storage' =
             IF checked THEN StorageAfter(v, now) ELSE rate_limit_storage
       /\ IF ~key_ok
          THEN \* 401 from api_key_middleware
               /\ req' = Request(op, "unauthorized", FALSE, JAbsent, 0, 0)
               /\ UNCHANGED <<db, last>>
          ELSE IF checked /\ ~IsAllowed(v, now)
          THEN \* 429 from rate_limit_middleware
               /\ req' = Request(op, "rate_limited", TRUE, v, now, 0)
               /\ UNCHANGED <<db, last>>
          ELSE IF ~Accepts(body)
          THEN \* 422 from the validation of the payload
               /\ req' = Request(op, "unprocessable", checked,
                                 IF checked THEN v ELSE JAbsent,
                                 IF checked THEN now ELSE 0, 0)
               /\ UNCHANGED <<db, last>>
          ELSE /\ req' = Request(op, "handled", checked,
                                 IF checked THEN v ELSE JAbsent,
                                 IF checked THEN now ELSE 0, Coerced(v))
               /\ Handle(op, Coerced(v), t)
       /\ UNCHANGED <<fan_vars, ssl_vars, out_vars>>

\* ---- certificate checks ---------------------------------------------------------
CriticalDays == 7
WarningDays == 30
InfoDays == 60
AlertDays == 30

MaxSslDomainId == 2
MaxCheck == 1

SslDomainIds == 1..MaxSslDomainId

\* the days until expiry a probe reports: the last day that alerts, the
\* first of the "info" days and the first of the "normal" days
DaysSamples == {AlertDays, AlertDays + 1, InfoDays + 1}

SslProbes ==
    {ValidCert(n, c) : n \in DaysSamples, c \in 1..MaxCheck}
        \cup {ProbeFailed(c) : c \in 1..MaxCheck}

\* should_alert_ssl_expiry: (should_alert, severity)
Severity(days) ==
    IF days <= 0 THEN "critical"
    ELSE IF days <= CriticalDays THEN "critical"
    ELSE IF days <= WarningDays THEN "warning"
    ELSE IF days <= InfoDays THEN "info"
    ELSE "normal"

ShouldAlert(days) == Severity(days) # "normal"

\* variant: every severity that alerts also notifies
ShouldNotifySsl_AnyAlert(days) == ShouldAlert(days)

\* if should_alert and days <= 30
ShouldNotifySsl(days) == ShouldAlert(days) /\ days <= AlertDays

\* what a certificate check did: the probe result it got (probed is FALSE
\* when it made none), whether its commit went through, the fan-out, and
\* the days until expiry the row held before the check (before)
Cert(op, d, outcome, probed, ssl_info, committed, ftype, notif) ==
    [op |-> op, domain_id |-> d, outcome |-> outcome, probed |-> probed,
     ssl_info |-> ssl_info, committed |-> committed, fanout |-> ftype,
     notifications |-> notif,
     before |-> IF d \in DOMAIN domains THEN domains[d].ssl_days_until_expiry
                ELSE None]

NoCert == Cert("none", 0, "ok", FALSE, ProbeFailed(0), FALSE, "none",
               NoNotifications)

\* check_ssl, failure branch: only ssl_last_checked is assigned
ManualFailure(row, ssl_info) ==
    [row EXCEPT !.ssl_last_checked = Some(ssl_info.checked_at)]

\* run_ssl_check, failure branch
SweepFailure(row, ssl_info) ==
    [row EXCEPT !.ssl_last_checked = Some(ssl_info.checked_at),
                !.ssl_days_until_expiry = None]

\* POST /domains/{id}/check-ssl
CheckSsl(d, ssl_info) ==
    IF ~DomainExists(d)
    THEN /\ UNCHANGED db
         /\ last' = Other("check_ssl", d, "not_found")
         /\ cert' = Cert("manual", d, "not_found", FALSE, ProbeFailed(0), FALSE,
                         "none", NoNotifications)
    ELSE \E committed \in BOOLEAN :
         IF ~committed
         THEN /\ UNCHANGED db
              /\ last' = Other("check_ssl", d, "persistence_error")
              /\ cert' = Cert("manual", d, "persistence_error", TRUE, ssl_info,
                              FALSE, "none", NoNotifications)
         ELSE /\ domains' = [domains EXCEPT ![d] =
                                IF ssl_info.valid THEN Snapshot(@, ssl_info)
                                ELSE ManualFailure(@, ssl_info)]
              /\ UNCHANGED <<logs, stats, devices>>
              /\ last' = Other("check_ssl", d, "ok")
              /\ IF /\ ssl_info.valid
                    /\ ShouldNotifySsl(ssl_info.days_until_expiry)
                    /\ devices # {}
                 THEN \E firebase_initialized \in BOOLEAN,
                         reachable \in SUBSET devices :
                      cert' = Cert("manual", d, "ok", TRUE, ssl_info, TRUE,
                                   "ssl_expiry",
                                   SendToAllDevices(devices,
                                       Delivered(firebase_initialized, reachable)))
                 ELSE cert' = Cert("manual", d, "ok", TRUE, ssl_info, TRUE,
                                   "none", NoNotifications)

\* the job between two runs
SweepIdle(aborted, probed, skipped) ==
    [pc |-> "idle", todo |-> {}, devices |-> {}, commits |-> 0,
     aborted |-> aborted, probed |-> probed, skipped |-> skipped]

\* run_ssl_check up to the loop: the two queries
SweepStart ==
    /\ sweep.pc = "idle"
    /\ LET enabled == {d \in DOMAIN domains :
                          domains[d].present /\ domains[d].ssl_enabled}
       IN sweep' = IF enabled = {}
                   THEN SweepIdle(FALSE, {}, {})
                   ELSE [pc |-> "loop", todo |-> enabled, devices |-> devices,
                         commits |-> 0, aborted |-> FALSE, probed |-> {},
                         skipped |-> {}]
    /\ cert' = NoCert
    /\ last' = Other("ssl_sweep", 0, "ok")
    /\ UNCHANGED db

\* the sweep after the domain d: the loop goes on, or the function returns
\* after the last domain
SweepAfter(d) ==
    IF sweep.todo = {d}
    THEN SweepIdle(FALSE, sweep.probed \cup {d}, {})
    ELSE [sweep EXCEPT !.todo = @ \ {d}, !.probed = @ \cup {d},
                       !.commits = 1]

\* except Exception: db.rollback(); the domains left in the list are not
\* visited
SweepAborted(d) == SweepIdle(TRUE, sweep.probed, sweep.todo \ {d})

\* variant: a certificate whose days until expiry are those of the last
\* check is not announced again
SweepNotifies_OncePerCertificate(row, ssl_info) ==
    /\ ssl_info.valid
    /\ ShouldNotifySsl(ssl_info.days_until_expiry)
    /\ row.ssl_days_until_expiry # Some(ssl_info.days_until_expiry)

\* if ssl_info and ssl_info.get('valid'): ... if should_alert and days <= 30;
\* the row's earlier snapshot is overwritten before and is not consulted
SweepNotifies(row, ssl_info) ==
    ssl_info.valid /\ ShouldNotifySsl(ssl_info.days_until_expiry)

\* one pass of the loop of run_ssl_check, for the domain d of the list
SweepStep(d, ssl_info) ==
    /\ sweep.pc = "loop"
    /\ d \in sweep.todo
    /\ last' = Other("ssl_sweep", d, "ok")
    /\ IF ~DomainExists(d) /\ sweep.commits > 0
       THEN \* the row is gone and the object expired: domain.name raises
            /\ UNCHANGED db
            /\ sweep' = SweepAborted(d)
            /\ cert' = Cert("sweep", d, "aborted", FALSE, ProbeFailed(0), FALSE,
                            "none", NoNotifications)
       ELSE \E committed \in BOOLEAN, firebase_initialized \in BOOLEAN,
               reachable \in SUBSET sweep.devices :
            LET notify == SweepNotifies(domains[d], ssl_info)
                ftype == IF notify THEN "ssl_expiry" ELSE "none"
                notif == IF notify
                         THEN SendToAllDevices(sweep.devices,
                                  Delivered(firebase_initialized, reachable))
                         ELSE NoNotifications
                stored == committed /\ DomainExists(d)
            IN /\ (~notify) => (firebase_initialized /\ reachable = {})
               /\ IF stored
                  THEN /\ domains' = [domains EXCEPT ![d] =
                                         IF ssl_info.valid
                                         THEN Snapshot(@, ssl_info)
                                         ELSE SweepFailure(@, ssl_info)]
                       /\ UNCHANGED <<logs, stats, devices>>
                       /\ sweep' = SweepAfter(d)
                       /\ cert' = Cert("sweep", d, "ok", TRUE, ssl_info, TRUE,
                                       ftype, notif)
                  ELSE \* db.commit() raised: the UPDATE matched no row, or
                       \* the database refused it
                       /\ UNCHANGED db
                       /\ sweep' = SweepAborted(d)
                       /\ cert' = Cert("sweep", d, "aborted", TRUE, ssl_info,
                                       FALSE, ftype, notif)

\* ---- the "up" notification's duration text ---------------------------------------
\* a number followed by its unit, as an f-string renders it
Part(n, unit) == [n |-> n, unit |-> unit]

\* duration_text: the parts are joined by one space
DurationText(duration_seconds) ==
    IF duration_seconds < 60
    THEN <<Part(duration_seconds, " seconds")>>
    ELSE IF duration_seconds < 3600
    THEN <<Part(duration_seconds \div 60, "m"), Part(duration_seconds % 60, "s")>>
    ELSE <<Part(duration_seconds \div 3600, "h"),
           Part((duration_seconds % 3600) \div 60, "m")>>

\* data["duration"] and data["duration_formatted"] of the "up" notification
UpData(duration_seconds) ==
    [type |-> "up", duration |-> duration_seconds,
     duration_formatted |-> DurationText(duration_seconds)]

NoMessage == [type |-> "none", duration |-> 0, duration_formatted |-> <<>>]

\* the payload of the fan-out the UP handler just made, if it made one
UpMessage ==
    IF last'.op = "up" /\ last'.fanout = "up"
    THEN UpData(Val(LogById(logs', last'.log).duration_seconds))
    ELSE message

\* ---- /events handlers running concurrently ------------------------------------------
\* the sync handlers run on worker threads, each request with a Session of
\* its own; the middleware runs on the event loop, one request at a time
MaxWorkers == 2
MaxRaceDomainId == 2
MaxInWindow == 2

Workers == 1..MaxWorkers
RaceDomainIds == 1..MaxRaceDomainId
RaceKeys == {JInt(d) : d \in RaceDomainIds}

\* detected_at of the concurrent events (0 for a DOWN event); the requests
\* arrive within the same second
RaceTimes == {0, TicksPerSec}
RaceClock == {0}

NoResult == Other("none", 0, "ok")

\* a request in progress: where it stands (pc: "rejected" after a 429,
\* "done" after the handler returned or raised), its payload (op, d, t),
\* the Domain object its session loaded (found, is_active), the id of the
\* row its log query returned (0 for none) and, once it is done, its
\* result; seen records which rows were resolved when the request arrived
Thread(pc, op, d, t, found, is_active, log, seen, result) ==
    [pc |-> pc, op |-> op, d |-> d, t |-> t, found |-> found,
     is_active |-> is_active, log |-> log, seen |-> seen, result |-> result]

Idle == Thread("idle", "none", 0, 0, FALSE, TRUE, 0, {}, NoResult)

NoThreads == [w \in Workers |-> Idle]

\* a worker that holds no request; a new request goes to the first of them
Free(w) == threads[w].pc \in {"idle", "rejected", "done"}

\* rate_limit_middleware for a request with a valid key and a well-formed
\* body: check_rate_limit(domain_id), then 429 or call_next
Admit(w, op, d, now, t) ==
    LET key == JInt(d)
        held == BagCardinality(Surviving(key, now))
    IN /\ Free(w)
       /\ \A v \in Workers : v < w => ~Free(v)
       /\ now >= clock
       /\ held < MaxInWindow \/ held >= RATE_LIMIT_REQUESTS
       /\ clock' = now
       /\ rate_limit_storage' = StorageAfter(key, now)
       /\ threads' = [threads EXCEPT ![w] =
             Thread(IF IsAllowed(key, now) THEN "admitted" ELSE "rejected",
                    op, d, t, FALSE, TRUE, 0,
                    {l.id : l \in {x \in logs : x.resolved}}, NoResult)]
       /\ UNCHANGED <<db, last, req, fan_vars, ssl_vars, report, message, aux_vars>>

\* domain = db.query(Domain).filter(Domain.id == payload.domain_id).first()
ReadDomain(w) ==
    LET th == threads[w]
    IN /\ th.pc = "admitted"
       /\ threads' = [threads EXCEPT
             ![w].pc = "domain_read",
             ![w].found = DomainExists(th.d),
             ![w].is_active = IF DomainExists(th.d)
                              THEN domains[th.d].is_active ELSE TRUE]
       /\ UNCHANGED <<db, last, fan_vars, limiter_vars, ssl_vars, report, message, aux_vars>>

\* variant: the log query has no filter
Candidates_NoFilter(d) == logs

\* the rows the log query of the UP handler selects from
Candidates(d) == OpenLogs(d)

\* log = db.query(DowntimeLog).filter(domain_id, resolved == False).first()
FindLog(w) ==
    LET th == threads[w]
    IN /\ th.pc = "domain_read"
       /\ th.op = "up"
       /\ \E i \in IF Candidates(th.d) = {} THEN {0}
                   ELSE {l.id : l \in Candidates(th.d)} :
             threads' = [threads EXCEPT ![w].pc = "log_read", ![w].log = i]
       /\ UNCHANGED <<db, last, fan_vars, limiter_vars, ssl_vars, report, message, aux_vars>>

\* variant: the status is read again under the commit
ObservedUp_Recheck(th) == WasUp(th.d)

\* was_up and was_down, from the Domain object the handler loaded
ObservedUp(th) == IF th.found THEN th.is_active ELSE TRUE
ObservedDown(th) == IF th.found THEN ~th.is_active ELSE FALSE

\* variant: the commit writes the status of every domain
LoadedFlip_Every(th, value) ==
    [x \in DOMAIN domains |-> [domains[x] EXCEPT !.is_active = value]]

\* domain.is_active = value at the commit: the unit of work writes the
\* column only if the value differs from the one the session loaded
LoadedFlip(th, value) ==
    IF th.found /\ th.is_active # value
    THEN [domains EXCEPT ![th.d].is_active = value]
    ELSE domains

\* the handler returns or raises: its session and its locals are gone
Finish(w, result) ==
    threads' = [threads EXCEPT ![w] =
        Thread("done", @.op, @.d, @.t, FALSE, TRUE, 0, @.seen, result)]

\* the rest of domain_down: the was_up branch with its commit and fan-out
DownCommit(w) ==
    LET th == threads[w]
        was_up == ObservedUp(th)
        Reply(outcome, changed, ftype, notif, log) ==
            Result("down", th.d, th.t, th.found, was_up, outcome, changed,
                   ftype, notif, log)
    IN /\ th.pc = "domain_read"
       /\ th.op = "down"
       /\ IF was_up
          THEN /\ NextLogId <= MaxLogId
               /\ \E committed \in BOOLEAN :
                    IF ~committed
                    THEN /\ UNCHANGED db
                         /\ Finish(w, Reply("persistence_error", FALSE, "none",
                                            NoNotifications, 0))
                    ELSE /\ logs' = DownLogs(th.d, th.t)
                         /\ domains' = LoadedFlip(th, FALSE)
                         /\ UNCHANGED <<stats, devices>>
                         /\ IF ~th.found
                            THEN Finish(w, Reply("exception", FALSE, "none",
                                                 NoNotifications, NextLogId))
                            ELSE \E firebase_initialized \in BOOLEAN,
                                    reachable \in SUBSET devices :
                                 Finish(w, Reply("ok", TRUE, "down",
                                           SendToAllDevices(devices,
                                               Delivered(firebase_initialized,
                                                         reachable)),
                                           NextLogId))
          ELSE /\ UNCHANGED db
               /\ Finish(w, Reply("ok", FALSE, "none", NoNotifications, 0))
       /\ UNCHANGED <<last, fan_vars, limiter_vars, ssl_vars, report, message, aux_vars>>

\* the rest of domain_up: the 404 branch or the update of the selected row,
\* the commit and the fan-out
UpCommit(w) ==
    LET th == threads[w]
        was_down == ObservedDown(th)
        Reply(outcome, changed, ftype, notif, log) ==
            Result("up", th.d, th.t, th.found, ~was_down, outcome, changed,
                   ftype, notif, log)
    IN /\ th.pc = "log_read"
       /\ th.op = "up"
       /\ IF th.log = 0
          THEN IF th.found /\ ~th.is_active
               THEN \E committed \in BOOLEAN :
                    IF ~committed
                    THEN /\ UNCHANGED db
                         /\ Finish(w, Reply("persistence_error", FALSE, "none",
                                            NoNotifications, 0))
                    ELSE /\ domains' = LoadedFlip(th, TRUE)
                         /\ UNCHANGED <<logs, stats, devices>>
                         /\ Finish(w, Reply("no_active_incident", FALSE, "none",
                                            NoNotifications, 0))
               ELSE /\ UNCHANGED db
                    /\ Finish(w, Reply("no_active_incident", FALSE, "none",
                                       NoNotifications, 0))
          ELSE LET l == LogById(logs, th.log)
               IN \E committed \in BOOLEAN :
                    IF ~committed
                    THEN /\ UNCHANGED db
                         /\ Finish(w, Reply("persistence_error", FALSE, "none",
                                            NoNotifications, 0))
                    ELSE /\ logs' = UpLogs(l, th.t)
                         /\ domains' = LoadedFlip(th, TRUE)
                         /\ UNCHANGED <<stats, devices>>
                         /\ IF ShouldNotifyUp(was_down,
                                              DurationSeconds(l.start_time, th.t))
                            THEN \E firebase_initialized \in BOOLEAN,
                                    reachable \in SUBSET devices :
                                 Finish(w, Reply("ok", was_down, "up",
                                           SendToAllDevices(devices,
                                               Delivered(firebase_initialized,
                                                         reachable)),
                                           l.id))
                            ELSE Finish(w, Reply("ok", was_down, "none",
                                                 NoNotifications, l.id))
       /\ UNCHANGED <<last, fan_vars, limiter_vars, ssl_vars, report, message, aux_vars>>

\* ---- rate_limit_middleware on the event loop ------------------------------------
\* a window that holds one admission less than the capacity, made at time 0
AlmostFull == [ts \in {0} |-> RATE_LIMIT_REQUESTS - 1]

\* the values time.time() takes while the requests are admitted
AdmissionTimes == {0, RATE_LIMIT_WINDOW - 1, RATE_LIMIT_WINDOW}

\* the keys of the provisioned domains
AdmissionKeys == {JInt(d) : d \in DomainIds}

\* one call of rate_limit_middleware: where it stands, and the locals of
\* check_rate_limit (domain_id, now, the list the comprehension built,
\* current_requests)
Coroutine(pc, key, now, kept, current_requests) ==
    [pc |-> pc, key |-> key, now |-> now, kept |-> kept,
     current_requests |-> current_requests]

NoCoroutine == Coroutine("idle", JAbsent, 0, EmptyBag, 0)

NoCoroutines == [w \in Workers |-> NoCoroutine]

\* the coroutine is between the first and the last statement of
\* check_rate_limit
InCheck(w) == coroutines[w].pc \in {"filter", "store", "count", "decide"}

\* variant: the calls run on preemptive threads
OnEventLoop_Preemptive(w) == TRUE

\* check_rate_limit is a plain function called from the coroutine: the event
\* loop runs it to its return before it resumes another coroutine
OnEventLoop(w) == \A v \in Workers \ {w} : ~InCheck(v)

\* the worker slot a new request takes: the first one that holds no call
FreeSlot(w) ==
    /\ coroutines[w].pc \in {"idle", "admitted", "rejected"}
    /\ \A v \in Workers :
          (v < w) => coroutines[v].pc \notin {"idle", "admitted", "rejected"}

\* a POST under /events with a truthy domain_id arrives; the coroutine is
\* suspended in await request.body()
Receive(w, key) ==
    /\ FreeSlot(w)
    /\ LET held == BagCardinality(rate_limit_storage[key])
       IN held < MaxTracked \/ held >= RATE_LIMIT_REQUESTS - 1
    /\ coroutines' = [coroutines EXCEPT ![w] =
                          Coroutine("body", key, 0, EmptyBag, 0)]
    /\ UNCHANGED <<rate_limit_storage, clock, granted>>

\* now = time.time(); window_start = now - RATE_LIMIT_WINDOW
EnterCheck(w, now) ==
    /\ coroutines[w].pc = "body"
    /\ OnEventLoop(w)
    /\ now >= clock
    /\ clock' = now
    /\ coroutines' = [coroutines EXCEPT ![w].pc = "filter", ![w].now = now]
    /\ UNCHANGED <<rate_limit_storage, granted>>

\* [ts for ts in rate_limit_storage[domain_id] if ts > window_start]
FilterList(w) ==
    /\ coroutines[w].pc = "filter"
    /\ OnEventLoop(w)
    /\ coroutines' = [coroutines EXCEPT
                          ![w].pc = "store",
                          ![w].kept = Surviving(coroutines[w].key, coroutines[w].now)]
    /\ UNCHANGED <<rate_limit_storage, clock, granted>>

\* rate_limit_storage[domain_id] = the list just built
StoreList(w) ==
    /\ coroutines[w].pc = "store"
    /\ OnEventLoop(w)
    /\ rate_limit_storage' =
           [rate_limit_storage EXCEPT ![coroutines[w].key] = coroutines[w].kept]
    /\ coroutines' = [coroutines EXCEPT ![w].pc = "count", ![w].kept = EmptyBag]
    /\ UNCHANGED <<clock, granted>>

\* current_requests = len(rate_limit_storage[domain_id])
CountList(w) ==
    /\ coroutines[w].pc = "count"
    /\ OnEventLoop(w)
    /\ coroutines' = [coroutines EXCEPT
                          ![w].pc = "decide",
                          ![w].current_requests =
                              BagCardinality(rate_limit_storage[coroutines[w].key])]
    /\ UNCHANGED <<rate_limit_storage, clock, granted>>

\* return False, 0 or rate_limit_storage[domain_id].append(now); granted
\* keeps every timestamp that was admitted
Decide(w) ==
    LET c == coroutines[w]
    IN /\ c.pc = "decide"
       /\ OnEventLoop(w)
       /\ IF Exceeded(c.current_requests)
          THEN /\ coroutines' = [coroutines EXCEPT ![w].pc = "rejected",
                                                   ![w].current_requests = 0]
               /\ UNCHANGED <<rate_limit_storage, granted>>
          ELSE /\ coroutines' = [coroutines EXCEPT ![w].pc = "admitted",
                                                   ![w].current_requests = 0]
               /\ rate_limit_storage' =
                      [rate_limit_storage EXCEPT ![c.key] = @ (+) SetToBag({c.now})]
               /\ granted' = [granted EXCEPT ![c.key] = @ (+) SetToBag({c.now})]
       /\ UNCHANGED clock

\* ---- api_key_middleware ---------------------------------------------------------
MaxPrefixes == 2

\* a header value: absent (or empty), or a key of VALID_API_KEYS ("valid")
\* or another string ("invalid") behind some number of "Bearer " prefixes
Absent == [present |-> FALSE, prefixes |-> 0, key |-> "none"]
HeaderValue(prefixes, key) == [present |-> TRUE, prefixes |-> prefixes, key |-> key]

HeaderValues ==
    {Absent} \cup {HeaderValue(n, k) : n \in 0..MaxPrefixes, k \in {"valid", "invalid"}}

Headers(x_api_key, authorization) ==
    [x_api_key |-> x_api_key, authorization |-> authorization]

NoHeaders == Headers(Absent, Absent)

\* request.headers.get("X-API-Key") or request.headers.get("Authorization")
Presented(h) == IF h.x_api_key.present THEN h.x_api_key ELSE h.authorization

\* if api_key and api_key.startswith("Bearer "):
\*     api_key = api_key.replace("Bearer ", "")      (every occurrence)
StripBearer(v) == IF v.present /\ v.prefixes > 0 THEN [v EXCEPT !.prefixes = 0] ELSE v

\* variant: a key in the Authorization header is accepted whatever the
\* X-API-Key header holds
VerifyApiKey_EitherHeader(h) ==
    \E v \in {h.x_api_key, h.authorization} :
        v.present /\ StripBearer(v).key = "valid"

\* not (not api_key or not verify_api_key(api_key))
VerifyApiKey(h) ==
    LET api_key == StripBearer(Presented(h))
    IN api_key.present /\ api_key.key = "valid"

\* ---- POST /devices/register, call by call -----------------------------------------
MaxDeviceId == 3

\* the tokens and platforms the calls carry: token 0 stands for a request
\* without a token, "none" for one without a platform, "other" for a
\* platform outside android / ios / web
RegTokens == 0..(MaxTokens + 1)
Platforms == {"none", "android", "other"}

\* DeviceToken(token=token, platform=platform or "unknown")
NewDeviceToken(id, token, platform) ==
    [id |-> id, token |-> token,
     platform |-> IF platform = "none" THEN "unknown" ELSE platform]

NextDeviceId ==
    IF device_tokens = {} THEN 1 ELSE SetMax({r.id : r \in device_tokens}) + 1

\* one call of register_device: where it stands, its token and platform,
\* and what it returned
Registration(pc, token, platform, outcome) ==
    [pc |-> pc, token |-> token, platform |-> platform, outcome |-> outcome]

NoRegistration == Registration("idle", 0, "none", "none")

NoRegistrations == [w \in Workers |-> NoRegistration]

\* db.query(DeviceToken).filter(DeviceToken.token == token).first()
Existing(token) == {r \in device_tokens : r.token = token}

\* variant: the column is not unique
UniqueViolation_NotEnforced(token) == FALSE

\* token = Column(String, unique=True): the INSERT of a second row with the
\* token raises IntegrityError
UniqueViolation(token) == Existing(token) # {}

\* the worker slot a new call takes: the first one that holds no call
FreeCall(w) ==
    /\ registrations[w].pc \in {"idle", "done"}
    /\ \A v \in Workers : (v < w) => registrations[v].pc \notin {"idle", "done"}

\* the validation of token and platform
RegisterStart(w, token, platform) ==
    /\ FreeCall(w)
    /\ registrations' =
           [registrations EXCEPT ![w] =
               IF token = 0 \/ platform = "other"
               THEN \* HTTPException(400)
                    Registration("done", token, platform, "bad_request")
               ELSE Registration("query", token, platform, "none")]
    /\ UNCHANGED device_tokens

\* existing = ...first(); if existing: return "Already registered"
QueryToken(w) ==
    /\ registrations[w].pc = "query"
    /\ registrations' =
           [registrations EXCEPT ![w] =
               IF Existing(registrations[w].token) # {}
               THEN [@ EXCEPT !.pc = "done", !.outcome = "already_registered"]
               ELSE [@ EXCEPT !.pc = "insert"]]
    /\ UNCHANGED device_tokens

\* db.add(device); db.commit(); an IntegrityError is rolled back and the
\* same "Registered" body is returned as after the insert (the outcome
\* tells the two apart for the properties)
CommitToken(w) ==
    LET r == registrations[w]
    IN /\ r.pc = "insert"
       /\ NextDeviceId <= MaxDeviceId
       /\ device_tokens' =
              IF UniqueViolation(r.token)
              THEN device_tokens
              ELSE device_tokens
                       \cup {NewDeviceToken(NextDeviceId, r.token, r.platform)}
       /\ registrations' =
              [registrations EXCEPT ![w] =
                  [@ EXCEPT !.pc = "done",
                            !.outcome = IF UniqueViolation(r.token)
                                        THEN "registered_after_rollback"
                                        ELSE "registered"]]

\* ---- specifications ------------------------------------------------------------
\* the empty tables over the domain ids of a specification
Tables(ids) ==
    /\ domains = [d \in ids |-> NoDomain]
    /\ logs = {}
    /\ stats = {}
    /\ devices = {}
    /\ last = Other("init", 0, "ok")

\* rate_limit_storage = defaultdict(list) at import
LimiterIdle ==
    /\ rate_limit_storage = [k \in Keys |-> EmptyBag]
    /\ clock = 0
    /\ req = NoRequest

SslIdle ==
    /\ sweep = SweepIdle(FALSE, {}, {})
    /\ cert = NoCert

\* no call of the middleware in progress and no request seen yet
\* (the tables of the other specifications are set by their Init)
AuxIdle ==
    /\ coroutines = NoCoroutines
    /\ granted = [k \in Keys |-> EmptyBag]
    /\ headers = NoHeaders
    /\ device_tokens = {}
    /\ registrations = NoRegistrations

\* no analytics query, no "up" notification and no handler in progress yet
OutIdle ==
    /\ report = NoReport
    /\ message = NoMessage
    /\ threads = NoThreads
    /\ AuxIdle

Init ==
    /\ Tables(DomainIds)
    /\ fan = FanIdle(TRUE)
    /\ LimiterIdle
    /\ SslIdle
    /\ OutIdle

\* events, provisioning, retention and analytics; domains are provisioned
\* with ssl_enabled off, so that create_domain makes no probe, and the
\* retention runs are those that leave one summary row at most
Next ==
    \/ \E d \in DomainIds, t \in Times :
           DomainDown(d, t) /\ UNCHANGED <<fan_vars, limiter_vars, ssl_vars, out_vars>>
    \/ \E d \in DomainIds, t \in Times :
           DomainUp(d, t) /\ UNCHANGED <<fan_vars, limiter_vars, ssl_vars, out_vars>>
    \/ CreateDomain(FALSE, ProbeFailed(0))
           /\ UNCHANGED <<fan_vars, limiter_vars, ssl_vars, out_vars>>
    \/ \E d \in DomainIds :
           DeleteDomain(d) /\ UNCHANGED <<fan_vars, limiter_vars, ssl_vars, out_vars>>
    \/ \E tok \in Tokens \cup {0}, platform_ok \in BOOLEAN :
           RegisterDevice(tok, platform_ok)
               /\ UNCHANGED <<fan_vars, limiter_vars, ssl_vars, out_vars>>
    \/ \E now \in NowTimes :
           /\ CleanupOldLogs(now)
           /\ Cardinality(stats') <= 1
           /\ UNCHANGED <<fan_vars, limiter_vars, ssl_vars, out_vars>>
    \/ GetTodayStats /\ UNCHANGED <<fan_vars, limiter_vars, ssl_vars, out_vars>>
    \/ \E d \in DomainIds \cup {0}, days \in WindowDays :
           GetDomainAnalytics(d, days)
               /\ UNCHANGED <<fan_vars, limiter_vars, ssl_vars, out_vars>>

Spec == Init /\ [][Next]_vars

\* one fan-out call after the other, with or without the Firebase SDK
InitFanout ==
    /\ Tables(DomainIds)
    /\ \E firebase_initialized \in BOOLEAN : fan = FanIdle(firebase_initialized)
    /\ LimiterIdle
    /\ SslIdle
    /\ OutIdle

NextFanout ==
    \/ \E n \in 0..MaxReceivers : SendStart(n)
    \/ \E attempt \in Attempts : SendOne(attempt)
    \/ SendReturn

SpecFanout == InitFanout /\ [][NextFanout]_vars

\* check_rate_limit alone, for the keys of the provisioned domains, up to
\* the capacity and past the window
NextLimiter ==
    \E d \in DomainIds, now \in ClockValues : CheckRateLimit(JInt(d), now)

SpecLimiter == Init /\ [][NextLimiter]_vars

\* a window that holds RATE_LIMIT_REQUESTS admissions made at time 0
FullWindow == [ts \in {0} |-> RATE_LIMIT_REQUESTS]

\* the times at which a window that began at 0 has just elapsed
WindowStarts == {c \in ClockValues : c % RATE_LIMIT_WINDOW = 0}

\* the requests under /events; the window of domain 1 starts empty or full
InitMiddleware ==
    /\ Tables(DomainIds)
    /\ fan = FanIdle(TRUE)
    /\ \E full \in BOOLEAN :
          rate_limit_storage =
              [k \in Keys |-> IF full /\ k = JInt(1) THEN FullWindow ELSE EmptyBag]
    /\ clock = 0
    /\ req = NoRequest
    /\ SslIdle
    /\ OutIdle

NextMiddleware ==
    \/ \E op \in {"down", "up"}, key_ok \in BOOLEAN, body \in Bodies,
          now \in WindowStarts, t \in {0} :
           EventRequest(op, key_ok, body, now, t)
    \/ CreateDomain(FALSE, ProbeFailed(0))
           /\ req' = NoRequest
           /\ UNCHANGED <<rate_limit_storage, clock, fan_vars, ssl_vars, out_vars>>

SpecMiddleware == InitMiddleware /\ [][NextMiddleware]_vars

\* provisioning, device registration, the manual check and the sweep
InitSsl ==
    /\ Tables(SslDomainIds)
    /\ fan = FanIdle(TRUE)
    /\ LimiterIdle
    /\ SslIdle
    /\ OutIdle

NextSsl ==
    \/ \E ssl_enabled \in BOOLEAN, ssl_info \in SslProbes :
           CreateDomain(ssl_enabled, ssl_info)
               /\ cert' = NoCert
               /\ UNCHANGED <<sweep, fan_vars, limiter_vars, out_vars>>
    \/ \E d \in SslDomainIds :
           DeleteDomain(d)
               /\ cert' = NoCert
               /\ UNCHANGED <<sweep, fan_vars, limiter_vars, out_vars>>
    \/ \E tok \in Tokens :
           RegisterDevice(tok, TRUE)
               /\ cert' = NoCert
               /\ UNCHANGED <<sweep, fan_vars, limiter_vars, out_vars>>
    \/ \E d \in SslDomainIds, ssl_info \in SslProbes :
           CheckSsl(d, ssl_info) /\ UNCHANGED <<sweep, fan_vars, limiter_vars, out_vars>>
    \/ SweepStart /\ UNCHANGED <<fan_vars, limiter_vars, out_vars>>
    \/ \E d \in SslDomainIds, ssl_info \in SslProbes :
           SweepStep(d, ssl_info) /\ UNCHANGED <<fan_vars, limiter_vars, out_vars>>

SpecSsl == InitSsl /\ [][NextSsl]_vars

\* the event times of the analytics specification: 23:45 of day 0, 00:15 of
\* day 1, half a second later, and 00:20
QuarterTo == DayTicks - 900 * TicksPerSec
QuarterPast == DayTicks + 900 * TicksPerSec
EventTimes == {QuarterTo, QuarterPast, QuarterPast + 1, QuarterPast + 300 * TicksPerSec}

\* the times of the analytics queries: 00:30 of day 1 and of day 2
QueryTimes == {DayTicks + 1800 * TicksPerSec, 2 * DayTicks + 1800 * TicksPerSec}

\* events at those times, provisioning, and the two analytics queries with
\* the bodies they return; report holds the body of the last operation if
\* that was a query
NextAnalytics ==
    \/ \E d \in DomainIds, t \in EventTimes :
           DomainDown(d, t)
               /\ report' = NoReport
               /\ UNCHANGED <<fan_vars, limiter_vars, ssl_vars, message, threads, aux_vars>>
    \/ \E d \in DomainIds, t \in EventTimes :
           DomainUp(d, t)
               /\ report' = NoReport
               /\ UNCHANGED <<fan_vars, limiter_vars, ssl_vars, message, threads, aux_vars>>
    \/ CreateDomain(FALSE, ProbeFailed(0))
           /\ report' = NoReport
           /\ UNCHANGED <<fan_vars, limiter_vars, ssl_vars, message, threads, aux_vars>>
    \/ \E now \in QueryTimes :
           /\ GetTodayStats
           /\ \E worst_domain \in WorstDomains(TodayLogs(now)) :
                  report' = TodayStats(now, worst_domain)
           /\ UNCHANGED <<fan_vars, limiter_vars, ssl_vars, message, threads, aux_vars>>
    \/ \E d \in DomainIds, days \in WindowDays, now \in QueryTimes :
           /\ GetDomainAnalytics(d, days)
           /\ \E order \in Orders(Fetched(d, days, now)) :
                  report' = DomainAnalytics(d, days, now, order)
           /\ UNCHANGED <<fan_vars, limiter_vars, ssl_vars, message, threads, aux_vars>>

SpecAnalytics == Init /\ [][NextAnalytics]_vars

\* the variables the admission, the key check and the registration calls
\* leave alone
idle_out == <<report, message, threads>>

\* concurrent POSTs under /events for one domain id; the window of the key
\* starts empty or one admission short of the capacity
InitAdmission ==
    /\ Tables(DomainIds)
    /\ fan = FanIdle(TRUE)
    /\ \E almost \in BOOLEAN :
          rate_limit_storage =
              [k \in Keys |-> IF almost /\ k = JInt(1) THEN AlmostFull ELSE EmptyBag]
    /\ granted = rate_limit_storage
    /\ clock = 0
    /\ req = NoRequest
    /\ SslIdle
    /\ report = NoReport
    /\ message = NoMessage
    /\ threads = NoThreads
    /\ coroutines = NoCoroutines
    /\ headers = NoHeaders
    /\ device_tokens = {}
    /\ registrations = NoRegistrations

NextAdmission ==
    /\ \/ \E w \in Workers, key \in AdmissionKeys : Receive(w, key)
       \/ \E w \in Workers, now \in AdmissionTimes : EnterCheck(w, now)
       \/ \E w \in Workers : FilterList(w)
       \/ \E w \in Workers : StoreList(w)
       \/ \E w \in Workers : CountList(w)
       \/ \E w \in Workers : Decide(w)
    /\ UNCHANGED <<db, last, req, fan_vars, ssl_vars, idle_out, headers,
                   device_tokens, registrations>>

SpecAdmission == InitAdmission /\ [][NextAdmission]_vars

\* a POST /domains: both middleware return call_next(request) at once for a
\* path outside /events
DomainsRequest(h) ==
    /\ CreateDomain(FALSE, ProbeFailed(0))
    /\ req' = Request("create", "handled", FALSE, JAbsent, 0, 0)
    /\ headers' = h
    /\ UNCHANGED <<rate_limit_storage, clock>>

\* requests with every combination of the two headers; the bodies hold the
\* id of a provisioned domain
NextAuth ==
    /\ \/ \E op \in {"down", "up"}, h \in HeaderValues \X HeaderValues,
             d \in DomainIds :
              /\ EventRequest(op, VerifyApiKey(Headers(h[1], h[2])),
                              Body(TRUE, JInt(d)), 0, 0)
              /\ headers' = Headers(h[1], h[2])
       \/ \E h \in HeaderValues \X HeaderValues :
              DomainsRequest(Headers(h[1], h[2])) /\ UNCHANGED <<fan_vars, ssl_vars>>
    /\ UNCHANGED <<idle_out, coroutines, granted, device_tokens, registrations>>

SpecAuth == InitMiddleware /\ [][NextAuth]_vars

\* events of provisioned domains and the retention job
NextRetention ==
    \/ \E d \in DomainIds, t \in Times :
           DomainExists(d) /\ DomainDown(d, t)
               /\ UNCHANGED <<fan_vars, limiter_vars, ssl_vars, out_vars>>
    \/ \E d \in DomainIds, t \in Times :
           DomainExists(d) /\ DomainUp(d, t)
               /\ UNCHANGED <<fan_vars, limiter_vars, ssl_vars, out_vars>>
    \/ CreateDomain(FALSE, ProbeFailed(0))
           /\ UNCHANGED <<fan_vars, limiter_vars, ssl_vars, out_vars>>
    \/ \E now \in NowTimes :
           CleanupOldLogs(now) /\ UNCHANGED <<fan_vars, limiter_vars, ssl_vars, out_vars>>

SpecRetention == Init /\ [][NextRetention]_vars

\* DOWN and UP events, one after the other, of domains that were
\* provisioned before and are not deleted; no retention run
NextProvisioned ==
    \/ \E d \in SslDomainIds, t \in Times :
           DomainExists(d) /\ DomainDown(d, t)
               /\ UNCHANGED <<fan_vars, limiter_vars, ssl_vars, out_vars>>
    \/ \E d \in SslDomainIds, t \in Times :
           DomainExists(d) /\ DomainUp(d, t)
               /\ UNCHANGED <<fan_vars, limiter_vars, ssl_vars, out_vars>>
    \/ CreateDomain(FALSE, ProbeFailed(0))
           /\ UNCHANGED <<fan_vars, limiter_vars, ssl_vars, out_vars>>
    \/ \E tok \in Tokens :
           RegisterDevice(tok, TRUE)
               /\ UNCHANGED <<fan_vars, limiter_vars, ssl_vars, out_vars>>

SpecProvisioned == InitSsl /\ [][NextProvisioned]_vars

\* calls of POST /devices/register that overlap
NextRegister ==
    /\ \/ \E w \in Workers, token \in RegTokens, platform \in Platforms :
              RegisterStart(w, token, platform)
       \/ \E w \in Workers : QueryToken(w)
       \/ \E w \in Workers : CommitToken(w)
    /\ UNCHANGED <<db, last, fan_vars, limiter_vars, ssl_vars, idle_out,
                   coroutines, granted, headers>>

SpecRegister == Init /\ [][NextRegister]_vars

\* the step is a handled DOWN (UP) event: the handler ran and its commit,
\* if it made one, succeeded
HandledDown == last'.op = "down" /\ last'.outcome # "persistence_error"
HandledUp == last'.op = "up" /\ last'.outcome # "persistence_error"

\* C1: every domain identity has at most one unresolved IncidentRecord.
C1_AtMostOneUnresolved ==
    \A d \in DomainIds : Cardinality(OpenLogs(d)) <= 1

\* C2: a DOWN event that follows a DOWN event for the same domain identity is
\* a no-op: it adds no IncidentRecord, leaves Domain and IncidentRecord state
\* unchanged, invokes no fan-out and reports no state change.
C2_IdempotentDown ==
    [][(/\ last.op = "down"
        /\ last.outcome # "persistence_error"
        /\ HandledDown
        /\ last'.domain_id = last.domain_id)
       => (/\ logs' = logs
           /\ domains' = domains
           /\ ~last'.status_changed
           /\ last'.fanout = "none")]_vars

\* C3: for an existing domain, a DOWN transition at t0 followed by an UP event
\* at t1 > t0 closes the record the DOWN opened with end = t1, resolved = true
\* and duration = t1 - t0 seconds exactly, sets isUp and invokes the "up"
\* fan-out. (Stated for t0 and t1 a whole number of seconds apart.)
C3_DownThenUp ==
    [][(/\ last.op = "down"
        /\ last.outcome = "ok"
        /\ last.status_changed
        /\ HandledUp
        /\ last'.domain_id = last.domain_id
        /\ last'.detected_at > last.detected_at
        /\ (last'.detected_at - last.detected_at) % TicksPerSec = 0)
       => LET l == LogById(logs', last.log)
          IN /\ l.resolved
             /\ l.end_time = Some(last'.detected_at)
             /\ IsSet(l.duration_seconds)
             /\ Val(l.duration_seconds) * TicksPerSec
                    = last'.detected_at - last.detected_at
             /\ domains'[last.domain_id].is_active
             /\ last'.fanout = "up"]_vars

\* the fan-out condition of an UP event
C4_NotifyIff ==
    HandledUp =>
        LET d == last'.domain_id
        IN (last'.fanout = "up") <=>
              (/\ OpenLogs(d) # {}
               /\ DomainExists(d) /\ ~domains[d].is_active
               /\ last'.log # 0
               /\ Val(LogById(logs', last'.log).duration_seconds) > 0)

\* the outcome of a zero-duration flap
C4_FlapSuppressed ==
    (/\ last.op = "down"
     /\ last.outcome = "ok"
     /\ last.status_changed
     /\ HandledUp
     /\ last'.domain_id = last.domain_id
     /\ last'.detected_at = last.detected_at)
    => /\ last'.log # 0
       /\ LogById(logs', last'.log).resolved
       /\ LogById(logs', last'.log).duration_seconds = Some(0)
       /\ last'.fanout = "none"

\* C4: an UP event invokes the fan-out exactly when an open record was found,
\* the status before the event was DOWN and the computed duration is > 0; a
\* DOWN transition followed by an UP event with the same timestamp closes a
\* record with resolved = true, duration = 0 and sends nothing.
C4_UpNotification == [][C4_NotifyIff /\ C4_FlapSuppressed]_vars

\* C5: an UP event received while the Domain's isUp is already true sends no
\* notification and changes no IncidentRecord.
C5_NoOpUp ==
    [][(/\ HandledUp
        /\ DomainExists(last'.domain_id)
        /\ domains[last'.domain_id].is_active)
       => (last'.fanout = "none" /\ logs' = logs)]_vars

\* C6: a DOWN event for an identity that has no Domain row commits exactly
\* one new IncidentRecord with that identity, start = detectedAt and
\* resolved = false, and touches no other record.
C6_UnknownDomainLogs ==
    [][(HandledDown /\ ~DomainExists(last'.domain_id))
       => \E l \in logs' :
             /\ l \notin logs
             /\ logs' = logs \cup {l}
             /\ \A x \in logs : x.id # l.id
             /\ l.domain_id = last'.domain_id
             /\ l.start_time = last'.detected_at
             /\ ~l.resolved
             /\ l.end_time = None
             /\ l.duration_seconds = None]_vars

\* a DOWN event for an identity without a Domain row has committed its record
C6_Witness ==
    /\ last.op = "down"
    /\ ~last.found
    /\ last.outcome # "persistence_error"
    /\ \E l \in logs : l.id = last.log /\ l.domain_id = last.domain_id /\ ~l.resolved

\* C7: every DOWN or UP event whose persistence operations succeed ends in a
\* structured result, never in an unhandled exception.
C7_StructuredResult ==
    (last.op \in {"down", "up"} /\ last.outcome # "persistence_error")
        => last.outcome \in {"ok", "no_active_incident"}

\* C8: an UP event for a domain with no unresolved IncidentRecord reports
\* "no active incident" and sends nothing; isUp is set to true if it was
\* false, Domain state is unchanged otherwise; no record is created or changed.
C8_NoActiveIncident ==
    [][(HandledUp /\ OpenLogs(last'.domain_id) = {})
       => LET d == last'.domain_id
          IN /\ last'.outcome = "no_active_incident"
             /\ last'.fanout = "none"
             /\ last'.notifications = NoNotifications
             /\ logs' = logs
             /\ IF DomainExists(d) /\ ~domains[d].is_active
                THEN domains' = [domains EXCEPT ![d].is_active = TRUE]
                ELSE domains' = domains]_vars

\* an UP event found no open record for a domain that was DOWN and set it UP
C8_Witness ==
    /\ last.op = "up"
    /\ last.outcome = "no_active_incident"
    /\ last.found
    /\ ~last.was_up
    /\ domains[last.domain_id].is_active
    /\ OpenLogs(last.domain_id) = {}

\* C9: a duration that is set equals end - start in whole seconds and is >= 0
\* (an end that precedes the start gives 0).
C9_DurationNonNegative ==
    \A l \in logs :
        IsSet(l.duration_seconds) =>
            /\ IsSet(l.end_time)
            /\ Val(l.duration_seconds) >= 0
            /\ IF Val(l.end_time) >= l.start_time
               THEN /\ Val(l.duration_seconds) * TicksPerSec
                          <= Val(l.end_time) - l.start_time
                    /\ Val(l.end_time) - l.start_time
                          < (Val(l.duration_seconds) + 1) * TicksPerSec
               ELSE Val(l.duration_seconds) = 0

\* C10: the status flip and the log mutation of one transition are committed
\* together or not at all: a DOWN event on an existing domain sets isUp to
\* false exactly when it adds the new record, an UP event that resolves a
\* record of an existing domain leaves isUp true, and an event whose commit
\* failed changes neither.
C10_AtomicTransition ==
    [][/\ (last'.op = "down" /\ DomainExists(last'.domain_id))
            => LET d == last'.domain_id
               IN /\ (domains[d].is_active /\ ~domains'[d].is_active)
                        <=> (\E l \in logs' \ logs :
                                l.domain_id = d /\ ~l.resolved)
                  /\ (logs' # logs) => (logs \subseteq logs' /\ domains' # domains)
                  /\ (domains' # domains) => logs' # logs
       /\ (last'.op = "up" /\ DomainExists(last'.domain_id))
            => ((\E l \in logs' \ logs : l.resolved)
                    => domains'[last'.domain_id].is_active)
       /\ (last'.op \in {"down", "up"} /\ last'.outcome = "persistence_error")
            => (domains' = domains /\ logs' = logs)]_vars

\* a DOWN transition on an existing domain is committed: flip and record
C10_Witness ==
    /\ last.op = "down"
    /\ last.found
    /\ last.status_changed
    /\ ~domains[last.domain_id].is_active
    /\ \E l \in logs : l.id = last.log /\ ~l.resolved

\* ---- properties: fan-out, rate limiter, certificate checks, analytics --------------
\* C11: a fan-out failure during a DOWN or UP transition never undoes the
\* transition: whenever the fan-out was invoked, whatever deliveries failed,
\* the record mutation and the status flip are in the committed state, the
\* result is a structured one and its counts report every failure
\* (success + failed = total = number of receivers).
C11_FanoutNeverUndoes ==
    [][(last'.op \in {"down", "up"} /\ last'.fanout # "none")
       => LET d == last'.domain_id
              n == last'.notifications
          IN /\ last'.outcome = "ok"
             /\ n.total = Cardinality(devices')
             /\ n.success + n.failed = n.total
             /\ IF last'.fanout = "down"
                THEN /\ ~domains'[d].is_active
                     /\ \E l \in logs' \ logs :
                           l.id = last'.log /\ l.domain_id = d /\ ~l.resolved
                ELSE /\ domains'[d].is_active
                     /\ \E l \in logs : l.id = last'.log /\ ~l.resolved
                     /\ LogById(logs', last'.log).resolved]_vars

\* a DOWN transition whose every delivery failed is committed all the same
C11_Witness ==
    /\ last.op = "down"
    /\ last.fanout = "down"
    /\ last.notifications.total > 0
    /\ last.notifications.failed = last.notifications.total
    /\ ~domains[last.domain_id].is_active
    /\ \E l \in logs : l.id = last.log /\ ~l.resolved

\* the timestamps of a list that lie inside the window that ends at now
Within(b, now) ==
    [ts \in {x \in DOMAIN b : now - x < RATE_LIMIT_WINDOW} |-> b[ts]]

\* C12: for one key, when capacity (400) admissions lie within the trailing
\* window (less than 60 s before now), an admission attempt is rejected with
\* remaining = 0 and records nothing, so that any number of further attempts
\* is rejected as well; when more than the window has elapsed since every
\* recorded timestamp, the attempt is admitted.
C12_WindowBoundary ==
    [][(req'.op = "check")
       => LET k == req'.key
              now == req'.now
              b == rate_limit_storage[k]
              inside == BagCardinality(Within(b, now))
          IN /\ (inside >= RATE_LIMIT_REQUESTS)
                   => /\ ~req'.allowed
                      /\ req'.remaining = 0
                      /\ BagCardinality(Within(rate_limit_storage'[k], now))
                             = inside
             /\ (\A ts \in DOMAIN b : now - ts > RATE_LIMIT_WINDOW)
                   => req'.allowed]_vars

\* a key whose list was full is admitted again after the window has elapsed
\* past the last of its timestamps
C12_Witness ==
    /\ req.op = "check"
    /\ req.before >= RATE_LIMIT_REQUESTS
    /\ req.now - req.newest > RATE_LIMIT_WINDOW
    /\ req.allowed

\* C13: check_rate_limit rejects exactly when the number of timestamps that
\* survive the pruning is >= capacity (leaving the pruned list, remaining 0)
\* and otherwise records now and returns remaining = capacity - count - 1,
\* which lies in 0..capacity-1.
C13_CheckRateLimit ==
    [][(req'.op = "check")
       => LET k == req'.key
              now == req'.now
              kept == Within(rate_limit_storage[k], now)
              count == BagCardinality(kept)
          IN /\ req'.allowed <=> (count < RATE_LIMIT_REQUESTS)
             /\ IF req'.allowed
                THEN /\ rate_limit_storage'[k] = kept (+) SetToBag({now})
                     /\ req'.remaining = RATE_LIMIT_REQUESTS - count - 1
                     /\ req'.remaining \in 0..(RATE_LIMIT_REQUESTS - 1)
                ELSE /\ rate_limit_storage'[k] = kept
                     /\ req'.remaining = 0]_vars

\* the attempt that follows the last admission of a full window is rejected
C13_Witness ==
    /\ req.op = "check"
    /\ ~req.allowed
    /\ req.count = RATE_LIMIT_REQUESTS
    /\ req.remaining = 0

\* C14: every down/up event that reaches its handler was admitted by the rate
\* limiter under the key of the domain id the handler is given.
C14_NoBypass ==
    (req.status = "handled")
        => (req.checked /\ req.allowed /\ req.key = JInt(req.domain_id))

\* the number of receivers of the call whose delivery returned a message id
Sent == Cardinality({k \in 1..Len(fan.got) : fan.got[k] = "sent"})

\* C15: for a non-empty list of n receivers send_to_all_devices returns
\* total = n, success + failed = n, success = the number of receivers whose
\* delivery returned ok, and one detail entry per receiver; 3 receivers with
\* 1 delivery error give total 3, success 2, failed 1.
C15_FanoutCounts ==
    (fan.pc = "returned" /\ Len(fan.devices) > 0)
        => LET n == Len(fan.devices)
               r == fan.results
           IN /\ r.total = n
              /\ r.success + r.failed = n
              /\ r.success = Sent
              /\ Len(r.details) = n
              /\ \A k \in 1..n :
                    Cardinality({j \in 1..Len(r.details) :
                                    r.details[j].token = fan.devices[k]}) = 1
              /\ (n = 3 /\ Sent = 2)
                    => (r.total = 3 /\ r.success = 2 /\ r.failed = 1)

\* three receivers, one delivery error
C15_Witness ==
    /\ fan.pc = "returned"
    /\ Len(fan.devices) = 3
    /\ Cardinality({k \in 1..3 : fan.got[k] = "error"}) = 1
    /\ Sent = 2
    /\ fan.results.total = 3 /\ fan.results.success = 2 /\ fan.results.failed = 1

\* C16: in one fan-out call every receiver of the list is attempted exactly
\* once: never twice, and when the call returns, once, whatever error result
\* or exception the attempts for the other receivers gave.
C16_EachReceiverOnce ==
    /\ \A k \in 1..Len(fan.devices) : fan.tried[k] <= 1
    /\ (fan.pc = "returned")
          => \A k \in 1..Len(fan.devices) : fan.tried[k] = 1

\* an exception for the first receiver and an error for the second did not
\* keep the third from being attempted
C16_Witness ==
    /\ fan.pc = "returned"
    /\ Len(fan.devices) = 3
    /\ fan.got[1] = "raised"
    /\ fan.got[2] = "error"
    /\ fan.tried[3] = 1

\* the step is a certificate check that probed a domain
Probed == cert'.op \in {"manual", "sweep"} /\ cert'.probed

\* C17: in the sweep and in the manual check the fan-out is invoked only for a
\* valid probe with daysUntilExpiry <= 30; for a valid probe with more days
\* nothing is sent, and the snapshot is persisted when the commit succeeds.
C17_NotifyWithin30 ==
    [][Probed
       => LET d == cert'.domain_id
              info == cert'.ssl_info
          IN /\ (cert'.fanout # "none")
                   => (info.valid /\ info.days_until_expiry <= 30)
             /\ (info.valid /\ info.days_until_expiry > 30)
                   => /\ cert'.fanout = "none"
                      /\ cert'.notifications = NoNotifications
                      /\ cert'.committed
                            => /\ domains'[d].ssl_days_until_expiry
                                      = Some(info.days_until_expiry)
                               /\ domains'[d].ssl_last_checked
                                      = Some(info.checked_at)]_vars

\* the sweep stored a certificate with 31 days left and sent nothing
C17_Witness ==
    /\ cert.op = "sweep"
    /\ cert.probed
    /\ cert.ssl_info.valid
    /\ cert.ssl_info.days_until_expiry = 31
    /\ cert.committed
    /\ cert.fanout = "none"
    /\ domains[cert.domain_id].ssl_days_until_expiry = Some(31)

\* C18: on a probe failure, in the sweep and in the manual check alike, the
\* last-checked timestamp is persisted, the stored daysUntilExpiry is cleared
\* and nothing is sent.
C18_ProbeFailure ==
    [][(Probed /\ ~cert'.ssl_info.valid /\ cert'.committed)
       => LET d == cert'.domain_id
          IN /\ domains'[d].ssl_last_checked = Some(cert'.ssl_info.checked_at)
             /\ domains'[d].ssl_days_until_expiry = None
             /\ cert'.fanout = "none"]_vars

\* C19: when a sweep ends, no domain of its list that still has its row was
\* left unprobed, whatever happened while another domain was handled.
C19_SweepCompletes ==
    [][(sweep.pc = "loop" /\ sweep'.pc = "idle")
       => \A x \in sweep'.skipped : ~domains'[x].present]_vars

\* C20: the analytics operations leave every Domain, IncidentRecord and
\* DailyStats record unchanged.
C20_AnalyticsReadOnly ==
    [][(last'.op \in {"today_stats", "domain_analytics"})
       => (domains' = domains /\ logs' = logs /\ stats' = stats)]_vars

\* summarizeDomain ran for a domain that has an open record
C20_Witness ==
    /\ last.op = "domain_analytics"
    /\ \E l \in logs : l.domain_id = last.domain_id /\ ~l.resolved

\* concurrent requests under /events for two domains, with provisioning;
\* the window of domain 1 starts empty or full
InitRace ==
    /\ Tables(RaceDomainIds)
    /\ fan = FanIdle(TRUE)
    /\ \E full \in BOOLEAN :
          rate_limit_storage =
              [k \in RaceKeys |-> IF full /\ k = JInt(1) THEN FullWindow ELSE EmptyBag]
    /\ clock = 0
    /\ req = NoRequest
    /\ SslIdle
    /\ OutIdle

NextRace ==
    \/ \E w \in Workers, op \in {"down", "up"}, d \in RaceDomainIds,
          now \in RaceClock, t \in RaceTimes :
           (op = "down" => t = 0) /\ Admit(w, op, d, now, t)
    \/ \E w \in Workers : ReadDomain(w)
    \/ \E w \in Workers : FindLog(w)
    \/ \E w \in Workers : DownCommit(w)
    \/ \E w \in Workers : UpCommit(w)
    \/ CreateDomain(FALSE, ProbeFailed(0))
           /\ UNCHANGED <<fan_vars, limiter_vars, ssl_vars, out_vars>>

SpecRace == InitRace /\ [][NextRace]_vars

\* the outage lengths, in seconds, around the two thresholds of the
\* duration text
OutageSeconds == {1, 59, 60, 90, 3599, 3600, 3661}

\* DOWN events at time 0 and UP events after each of the outage lengths,
\* with the payload of the "up" notification
NextText ==
    \/ \E d \in DomainIds :
           DomainDown(d, 0)
               /\ UNCHANGED <<fan_vars, limiter_vars, ssl_vars, out_vars>>
    \/ \E d \in DomainIds, sec \in OutageSeconds :
           DomainUp(d, sec * TicksPerSec)
               /\ message' = UpMessage
               /\ UNCHANGED <<fan_vars, limiter_vars, ssl_vars, report, threads, aux_vars>>
    \/ CreateDomain(FALSE, ProbeFailed(0))
           /\ UNCHANGED <<fan_vars, limiter_vars, ssl_vars, out_vars>>

SpecText == Init /\ [][NextText]_vars

\* the rows a domain_analytics body lists
Rows == {report.logs[k] : k \in DOMAIN report.logs}

\* the resolved rows of the body, and those of them with a duration
ResolvedRows == {l \in Rows : l.resolved}
TimedRows == {l \in ResolvedRows : IsSet(l.duration_seconds)}

\* C21: mttr is the integer-truncated mean of duration over all resolved
\* records of the window that have a non-null duration (0 is non-null), and
\* 0 when there is no such record.
C21_Mttr ==
    report.op = "domain_analytics"
        => report.mttr = IF TimedRows = {} THEN 0
                         ELSE TruncDiv(SumDurations(TimedRows),
                                       Cardinality(TimedRows))

\* C22: mtbf is 7 * 86400 - totalDowntime when the fetched window holds
\* exactly one resolved record and 0 when it holds none, whatever the number
\* of unresolved records and whatever windowDays is.
C22_MtbfSingle ==
    report.op = "domain_analytics"
        => /\ Cardinality(ResolvedRows) = 1
                => report.mtbf = 7 * 86400 - report.total_downtime
           /\ ResolvedRows = {} => report.mtbf = 0

\* the interval of a record, with now as the end of an open one, and its
\* overlap in ticks with the hour that starts at hour_start
IntervalEnd(l) == IF IsSet(l.end_time) THEN Val(l.end_time) ELSE report.now

HourOverlap(l, hour_start) ==
    LET from == Greatest(l.start_time, hour_start)
        to == Least(IntervalEnd(l), hour_start + HourTicks)
    IN IF to > from THEN to - from ELSE 0

RECURSIVE SumHourOverlap(_, _)
SumHourOverlap(S, hour_start) ==
    IF S = {} THEN 0
    ELSE LET l == CHOOSE x \in S : TRUE
         IN HourOverlap(l, hour_start) + SumHourOverlap(S \ {l}, hour_start)

\* the whole seconds between the start of a record and its end (now for an
\* open record)
ElapsedSeconds(l) == TruncDiv(IntervalEnd(l) - l.start_time, TicksPerSec)

\* C23: for windowDays = 1 there are 24 hourly buckets, the last one being
\* the current hour; the downtime of each bucket is the sum over the records
\* of the overlap, in seconds, of the record's interval (now as the end of an
\* open record) with the bucket; an incident from 23:45 to 00:15 gives 900 s
\* to each of two buckets; the buckets' shares of a single record that lies
\* inside the 24 hours add up to its duration.
C23_HourlyBuckets ==
    (report.op = "domain_analytics" /\ report.days = 1)
        => LET b == report.daily_stats
               first == (report.now \div HourTicks) * HourTicks - 23 * HourTicks
           IN /\ Len(b) = 24
              /\ \A k \in 1..24 :
                    /\ b[k].date = first + (k - 1) * HourTicks
                    /\ b[k].total_downtime =
                          TruncDiv(SumHourOverlap(Rows, b[k].date), TicksPerSec)
              /\ \A l \in Rows :
                    (Rows = {l} /\ l.start_time = QuarterTo
                        /\ l.end_time = Some(QuarterPast)
                        /\ report.now \div DayTicks = 1)
                        => b[23].total_downtime = 900 /\ b[24].total_downtime = 900
              /\ \A l \in Rows :
                    (Rows = {l} /\ l.start_time >= first
                        /\ l.start_time <= IntervalEnd(l)
                        /\ IntervalEnd(l) <= first + 24 * HourTicks)
                        => SumSeq([k \in 1..24 |-> b[k].total_downtime])
                               = ElapsedSeconds(l)

\* C24: totalDowntime is the sum over the fetched records of their duration,
\* an unresolved record counting as now - start seconds rather than as 0.
C24_TotalDowntime ==
    report.op = "domain_analytics"
        => LET Counted(l) == IF l.resolved THEN DurationOrZero(l)
                              ELSE ElapsedSeconds(l)
               RECURSIVE Total(_)
               Total(S) == IF S = {} THEN 0
                           ELSE LET l == CHOOSE x \in S : TRUE
                                IN Counted(l) + Total(S \ {l})
           IN report.total_downtime = Total(Rows)

\* C25: the retention job deletes only resolved records: an unresolved record
\* is never deleted by cleanup_old_logs, however old its start.
C25_RetentionKeepsOpen ==
    [][last'.op = "cleanup"
       => \A l \in logs : ~l.resolved => l \in logs']_vars

\* C28: every record opened for a domain identity is closed (resolved, with
\* the event's detectedAt as its end) by the first UP event for that identity
\* processed after the record was created, so that after an UP event no
\* unresolved record remains for the identity.
C28_UpClosesAll ==
    [][HandledUp
       => /\ \A l \in OpenLogs(last'.domain_id) :
                \E c \in logs' : /\ c.id = l.id
                                 /\ c.resolved
                                 /\ c.end_time = Some(last'.detected_at)
          /\ \A l \in logs' : l.domain_id = last'.domain_id => l.resolved]_vars

\* C27: the duration text of an up notification, for a duration d > 0:
\* d < 60 gives "Ns" with N = d; 60 <= d < 3600 gives "Mm Ss" with
\* M = d div 60 and S = d mod 60 (90 gives "1m 30s"); d >= 3600 gives "Hh Mm"
\* with H = d div 3600 and M = (d mod 3600) div 60 (3661 gives "1h 1m").
C27_DurationText ==
    (message.type = "up" /\ message.duration > 0)
        => LET d == message.duration
               text == message.duration_formatted
           IN /\ d < 60 => text = <<Part(d, "s")>>
              /\ (60 <= d /\ d < 3600)
                    => text = <<Part(d \div 60, "m"), Part(d % 60, "s")>>
              /\ d >= 3600
                    => text = <<Part(d \div 3600, "h"),
                                Part((d % 3600) \div 60, "m")>>
              /\ d = 90 => text = <<Part(1, "m"), Part(30, "s")>>
              /\ d = 3661 => text = <<Part(1, "h"), Part(1, "m")>>

\* a request that a worker is handling, and the step being one of its steps
InProgress(w) == threads[w].pc \in {"admitted", "domain_read", "log_read"}
StepOf(w) == threads'[w] # threads[w]

\* C26: the DOWN handlers are not serialized per domain: a handler reads the
\* committed status whatever the other handlers in progress, and a handler
\* that observed an existing domain UP adds an unresolved record and invokes
\* the down fan-out when it commits, even if another DOWN handler for the
\* same domain committed in between; so two unresolved records and two down
\* fan-outs for one domain are reachable.
C26_NoSerialization ==
    [][\A w \in Workers :
         /\ (StepOf(w) /\ threads'[w].pc = "domain_read"
                /\ DomainExists(threads[w].d))
               => threads'[w].is_active = domains[threads[w].d].is_active
         /\ (threads[w].pc = "domain_read" /\ threads[w].op = "down"
                /\ threads[w].found /\ threads[w].is_active
                /\ threads'[w].pc = "done"
                /\ threads'[w].result.outcome # "persistence_error")
               => /\ \E l \in logs' \ logs :
                        l.domain_id = threads[w].d /\ ~l.resolved
                  /\ threads'[w].result.fanout = "down"]_vars

\* two DOWN handlers for the same existing domain have both returned with a
\* down fan-out, and the domain has two unresolved records
C26_Witness ==
    \E d \in RaceDomainIds :
        /\ DomainExists(d)
        /\ Cardinality(OpenLogs(d)) >= 2
        /\ \E w, v \in Workers :
              /\ w # v
              /\ \A x \in {w, v} :
                    /\ threads[x].pc = "done"
                    /\ threads[x].op = "down"
                    /\ threads[x].d = d
                    /\ threads[x].result.found
                    /\ threads[x].result.fanout = "down"

C30_Independent ==
    [][\A w \in Workers :
         StepOf(w)
            => \A B \in RaceDomainIds \ {threads'[w].d} :
                  /\ domains'[B] = domains[B]
                  /\ {l \in logs' : l.domain_id = B} = {l \in logs : l.domain_id = B}
                  /\ rate_limit_storage'[JInt(B)] = rate_limit_storage[JInt(B)]]_vars

\* an event for A has written a record while a handler for another domain
\* B, which has a record and a window entry of its own, is in progress
C30_Witness ==
    \E w, v \in Workers :
        /\ threads[w].pc = "done"
        /\ threads[w].result.outcome = "ok"
        /\ threads[w].result.log # 0
        /\ InProgress(v)
        /\ threads[v].d # threads[w].d
        /\ DomainExists(threads[v].d)
        /\ \E l \in logs : l.domain_id = threads[v].d
        /\ rate_limit_storage[JInt(threads[v].d)] # EmptyBag

\* the admitted timestamps of a key in the window that ends at now
GrantedWithin(k, now) ==
    [ts \in {x \in DOMAIN granted[k] : x <= now /\ now - x < RATE_LIMIT_WINDOW}
        |-> granted[k][ts]]

\* C31: under any interleaving of concurrent /events requests with the same
\* domain id, no two calls are inside check_rate_limit for that key at once,
\* every admitted timestamp that is not older than the window is still in
\* the key's list, and the admitted timestamps of any one window are at
\* most capacity (400).
C31_AdmissionAtomic ==
    /\ \A w, v \in Workers :
          (w # v /\ InCheck(w) /\ InCheck(v))
              => coroutines[w].key # coroutines[v].key
    /\ \A k \in AdmissionKeys :
          /\ \A ts \in DOMAIN granted[k] :
                (clock - ts < RATE_LIMIT_WINDOW)
                    => CopiesIn(ts, rate_limit_storage[k]) >= CopiesIn(ts, granted[k])
          /\ \A now \in AdmissionTimes :
                BagCardinality(GrantedWithin(k, now)) <= RATE_LIMIT_REQUESTS

\* two calls for one key overlapped at a window one short of the capacity:
\* one was admitted and filled the window, the other was rejected
C31_Witness ==
    \E w, v \in Workers :
       /\ coroutines[w].pc = "admitted"
       /\ coroutines[v].pc = "rejected"
       /\ coroutines[w].key = coroutines[v].key
       /\ coroutines[w].now = coroutines[v].now
       /\ BagCardinality(rate_limit_storage[coroutines[w].key]) = RATE_LIMIT_REQUESTS
       /\ granted = rate_limit_storage

\* C32: a request the rate limiter rejects is answered with the rate-limited
\* outcome and retry_after = window length (60), adds no timestamp to the
\* key's list, and does not reach the handler: the tables and the last
\* handler result are as before.
C32_RejectedChangesNothing ==
    [][(req'.status = "rate_limited")
       => LET k == req'.key
          IN /\ req'.checked /\ ~req'.allowed
             /\ req'.retry_after = RATE_LIMIT_WINDOW
             /\ \A ts \in DOMAIN rate_limit_storage'[k] :
                   CopiesIn(ts, rate_limit_storage'[k])
                       <= CopiesIn(ts, rate_limit_storage[k])
             /\ UNCHANGED <<domains, logs, stats, devices, last>>]_vars

\* a DOWN event for a provisioned domain was rejected at a full window
C32_Witness ==
    /\ req.op = "down"
    /\ req.status = "rate_limited"
    /\ req.retry_after = RATE_LIMIT_WINDOW
    /\ req.count = RATE_LIMIT_REQUESTS
    /\ DomainExists(req.key.n)
    /\ domains[req.key.n].is_active

\* the timestamps of a list that are not older than now - window
NotOlder(b, now) ==
    [ts \in {x \in DOMAIN b : x >= now - RATE_LIMIT_WINDOW} |-> b[ts]]

\* C33: an admission check at time now discards exactly the timestamps older
\* than now - window: a timestamp equal to now - window is kept and counts
\* toward the capacity.
C33_BoundaryKept ==
    [][(req'.op = "check")
       => LET k == req'.key
              now == req'.now
              kept == NotOlder(rate_limit_storage[k], now)
          IN /\ req'.count = BagCardinality(kept)
             /\ req'.allowed <=> (BagCardinality(kept) < RATE_LIMIT_REQUESTS)
             /\ \A ts \in DOMAIN kept :
                   CopiesIn(ts, rate_limit_storage'[k]) >= CopiesIn(ts, kept)]_vars

\* the DailyStats rows of a (domain, date) pair in a table
RowsOf(S, d, day) == {r \in S : r.domain_id = d /\ r.date = day}

\* C34: one run of cleanup_old_logs leaves no record that started more than
\* 90 days ago, and for every (domain, start date) of a deleted record
\* exactly one DailyStats row exists afterwards, whose total_incidents and
\* total_downtime grew by the count and the summed durations of the deleted
\* records of that domain and day (from 0 when the pair had no row).
C34_FoldedOnce ==
    [][(last'.op = "cleanup")
       => /\ \E now \in NowTimes : logs' = logs \ OldLogs(now)
          /\ \A l \in logs \ logs' :
                LET d == l.domain_id
                    day == DateOf(l.start_time)
                    mine == {x \in logs \ logs' :
                                x.domain_id = d /\ DateOf(x.start_time) = day}
                    old == RowsOf(stats, d, day)
                    new == RowsOf(stats', d, day)
                IN /\ Cardinality(new) = 1
                   /\ Cardinality(old) <= 1
                   /\ \A r \in new :
                         /\ r.total_incidents =
                                Cardinality(mine)
                                    + (IF old = {} THEN 0
                                       ELSE (CHOOSE o \in old : TRUE).total_incidents)
                         /\ r.total_downtime =
                                SumDurations(mine)
                                    + (IF old = {} THEN 0
                                       ELSE (CHOOSE o \in old : TRUE).total_downtime)]_vars

\* the step is a request under /events (outside /events: a POST /domains)
EventsStep == req'.op \in {"down", "up"}
DomainsStep == req'.op = "create"

\* the request is answered 401 and the handler did not run
Refused ==
    /\ req'.status = "unauthorized"
    /\ UNCHANGED <<domains, logs, stats, devices, last>>

\* the X-API-Key header is a valid key, or the Authorization header is
\* "Bearer " followed by a valid key
CarriesKey(h) ==
    \/ h.x_api_key = HeaderValue(0, "valid")
    \/ h.authorization = HeaderValue(1, "valid")

\* C35 as stated: a request under /events that carries no valid API key,
\* neither in X-API-Key nor as an Authorization Bearer value, is answered
\* 401 and does not reach the handler; requests outside /events pass
\* without a key check.
C35_NoKeyRejected ==
    [][/\ (EventsStep /\ ~CarriesKey(headers')) => Refused
       /\ DomainsStep => req'.status = "handled"]_vars

\* the header the check reads: X-API-Key, or Authorization when X-API-Key is
\* absent or empty
Credential(h) == IF h.x_api_key.present THEN h.x_api_key ELSE h.authorization

\* C35: a request under /events is answered 401 and does not reach the
\* handler, leaving the tables unchanged, exactly when the header the check
\* reads (X-API-Key, or Authorization when X-API-Key is absent or empty) holds
\* no valid key, bare or behind "Bearer "; requests outside /events are
\* passed through without a key check.
C35_KeyCheck ==
    [][/\ EventsStep
          => (Refused <=> ~(Credential(headers').present
                               /\ Credential(headers').key = "valid"))
       /\ DomainsStep => req'.status = "handled"]_vars

\* an event with a wrong X-API-Key was refused although its Authorization
\* header held "Bearer " and a valid key; the domain is still UP
C35_Witness ==
    /\ req.op = "down"
    /\ req.status = "unauthorized"
    /\ headers.x_api_key = HeaderValue(0, "invalid")
    /\ headers.authorization = HeaderValue(1, "valid")
    /\ DomainExists(1)
    /\ domains[1].is_active
    /\ logs = {}

\* C36: for a POST under /events the rate-limit check for the request's
\* domain id is made before the API-key check: a request with an invalid key
\* (answered 401) went through check_rate_limit first and, when admitted, left
\* its timestamp in the window of its domain id.
C36_RateLimitFirst ==
    [][(EventsStep /\ req'.status = "unauthorized")
       => /\ req'.checked
          /\ req'.allowed
                => \E k \in AdmissionKeys :
                      BagCardinality(rate_limit_storage'[k])
                          = BagCardinality(Surviving(k, req'.now)) + 1]_vars

\* C37: for a Domain row that exists before its first event and is never
\* deleted, under DOWN and UP events handled one after the other (and no
\* retention run), is_active = false holds exactly when the domain has an
\* unresolved record.
C37_DownIffOpenRecord ==
    \A d \in SslDomainIds :
        DomainExists(d) => (~domains[d].is_active <=> OpenLogs(d) # {})

\* a domain that went down, came up and went down again: it is DOWN with
\* one unresolved record next to a resolved one
C37_Witness ==
    \E d \in SslDomainIds :
       /\ DomainExists(d)
       /\ ~domains[d].is_active
       /\ Cardinality(OpenLogs(d)) = 1
       /\ \E l \in logs : l.domain_id = d /\ l.resolved

\* the step is a handler for the domain d that invoked the fan-out of the
\* given type
FanoutStep(op, d) ==
    last'.op = op /\ last'.domain_id = d /\ last'.fanout = op

\* the step opened an unresolved record of the domain d
Opened(d) == \E l \in logs' \ logs : l.domain_id = d /\ ~l.resolved

\* C38: for an existing domain under sequential execution, notifications
\* alternate with state changes.  A "down" fan-out happens only in a step
\* that takes the domain from UP to DOWN and an "up" fan-out only in a step
\* that takes it from DOWN to UP; the domain gets back to UP only by an UP
\* event and gets to DOWN only by a DOWN event that opens a new record.  So
\* between two "down" fan-outs lies an UP event that set is_active back to
\* true, and between two "up" fan-outs a DOWN transition that opened a record.
C38_Alternation ==
    [][\A d \in SslDomainIds :
          DomainExists(d)
             => /\ FanoutStep("down", d)
                   => (domains[d].is_active /\ ~domains'[d].is_active /\ Opened(d))
                /\ FanoutStep("up", d)
                   => (~domains[d].is_active /\ domains'[d].is_active)
                /\ (~domains[d].is_active /\ domains'[d].is_active)
                   => (last'.op = "up" /\ last'.domain_id = d)
                /\ (domains[d].is_active /\ ~domains'[d].is_active)
                   => (last'.op = "down" /\ last'.domain_id = d /\ Opened(d))]_vars

\* the second "down" fan-out of a domain: its first outage is resolved and
\* the DOWN event that was just handled opened the second record and notified
C38_Witness ==
    /\ last.op = "down"
    /\ last.fanout = "down"
    /\ last.notifications.total > 0
    /\ \E l \in logs : l.domain_id = last.domain_id /\ l.resolved
    /\ \E l \in logs : l.domain_id = last.domain_id /\ ~l.resolved /\ l.id = last.log

\* C39: the sweep keeps no memory of past alerts: every pass of a sweep whose
\* probe of the domain succeeds with days until expiry <= 30 invokes the
\* fan-out once for that domain, whatever the row held from the check
\* before, and a domain is visited once in a sweep.
C39_SweepAlertsAgain ==
    [][(cert'.op = "sweep" /\ cert'.probed /\ cert'.ssl_info.valid
            /\ cert'.ssl_info.days_until_expiry <= AlertDays)
       => /\ cert'.fanout = "ssl_expiry"
          /\ cert'.notifications.total = Cardinality(sweep.devices)
          /\ cert'.domain_id \in sweep.todo
          /\ sweep'.pc = "loop" => cert'.domain_id \notin sweep'.todo]_vars

\* a sweep alerted for a certificate whose days until expiry the row already
\* held from the check before, and a receiver got the second alert
C39_Witness ==
    /\ cert.op = "sweep"
    /\ cert.fanout = "ssl_expiry"
    /\ cert.ssl_info.valid
    /\ cert.before = Some(cert.ssl_info.days_until_expiry)
    /\ cert.notifications.success > 0

\* the call of the worker w has returned a body (no HTTPException)
Returned(w) ==
    registrations'[w].pc = "done" /\ registrations'[w].outcome # "bad_request"

\* C40: whatever the order and the overlap of the register calls, each token
\* is in at most one row of device_tokens; no step changes or removes a row,
\* and a row is added only for a token that had none; every call that passed
\* the validation returns "Registered" or "Already registered" (no error),
\* and after it exactly one row holds its token, also when two calls for
\* the same new token overlap.
C40_RegisterIdempotent ==
    [][/\ \A r1, r2 \in device_tokens' : (r1.token = r2.token) => (r1 = r2)
       /\ device_tokens \subseteq device_tokens'
       /\ \A r \in device_tokens' \ device_tokens : Existing(r.token) = {}
       /\ \A w \in Workers :
             Returned(w)
                => /\ registrations'[w].outcome \in
                          {"registered", "registered_after_rollback",
                           "already_registered"}
                   /\ Cardinality({r \in device_tokens' :
                                      r.token = registrations'[w].token}) = 1]_vars

\* two calls for the same new token overlapped: both found no row, one
\* inserted it, the other's insert raised IntegrityError and was rolled
\* back, and one row is left
C40_Witness ==
    \E w, v \in Workers :
       /\ registrations[w].pc = "done" /\ registrations[w].outcome = "registered"
       /\ registrations[v].pc = "done"
       /\ registrations[v].outcome = "registered_after_rollback"
       /\ registrations[w].token = registrations[v].token
       /\ registrations[w].platform # registrations[v].platform
       /\ Cardinality(Existing(registrations[w].token)) = 1

====
